---- MODULE Spec2Model ----
(***************************************************************************)
(* A model of the Obsidian vault server: the path policy                   *)
(* (utils/security.py), the note lookup (utils/vault.py), the write path   *)
(* (tools/creation_logic.py, tools/navigation_logic.py) and the semantic   *)
(* indexer (semantic/indexer.py, semantic/service.py).                     *)
(*                                                                         *)
(* Strings are sequences of symbols.  A symbol stands for a fixed run of   *)
(* literal characters ("Private", ".md"); the characters the code treats   *)
(* specially ("/", "*", "-") are always symbols of their own.  A path is a *)
(* sequence of segments, a segment is a string; an absolute path starts    *)
(* with the segment ROOT.                                                  *)
(***************************************************************************)
EXTENDS Integers, Sequences, FiniteSets, TLC

\* Python's None, where a path, a list or a content may be missing
None == <<>>

\* ------------------------------------------------------------ strings ----

RECURSIVE StartsWith(_, _)
\* str.startswith
StartsWith(s, pre) ==
    IF pre = <<>> THEN TRUE
    ELSE IF s = <<>> THEN FALSE
    ELSE Head(s) = Head(pre) /\ StartsWith(Tail(s), Tail(pre))

RECURSIVE LStrip(_, _)
\* str.lstrip(c) for a single character c
LStrip(s, c) == IF s # <<>> /\ Head(s) = c THEN LStrip(Tail(s), c) ELSE s

RECURSIVE RStrip(_, _)
\* str.rstrip(c) for a single character c
RStrip(s, c) ==
    IF s # <<>> /\ s[Len(s)] = c THEN RStrip(SubSeq(s, 1, Len(s) - 1), c) ELSE s

RECURSIVE SplitStarStar(_, _)
\* pattern.split("**"): the parts between the non-overlapping occurrences of
\* "**", scanning from the left; acc is the part being read.
SplitStarStar(p, acc) ==
    IF p = <<>> THEN <<acc>>
    ELSE IF Len(p) >= 2 /\ p[1] = "*" /\ p[2] = "*"
         THEN <<acc>> \o SplitStarStar(SubSeq(p, 3, Len(p)), <<>>)
         ELSE SplitStarStar(Tail(p), Append(acc, Head(p)))

RECURSIVE FnMatch(_, _)
\* fnmatch.fnmatch(name, pat): "*" matches any run of characters, "/" included.
\* ("?" and "[...]" do not occur in the patterns of this model.)
FnMatch(s, p) ==
    IF p = <<>> THEN s = <<>>
    ELSE IF Head(p) = "*"
         THEN FnMatch(s, Tail(p)) \/ (s # <<>> /\ FnMatch(Tail(s), p))
         ELSE s # <<>> /\ Head(s) = Head(p) /\ FnMatch(Tail(s), Tail(p))

\* -------------------------------------------------------------- paths ----

ROOT == <<"/">>
DOTDOT == <<"..">>

IsAbsolute(p) == p # <<>> /\ Head(p) = ROOT

\* pathlib's "/" operator: an absolute right operand replaces the left one
Join(base, p) == IF IsAbsolute(p) THEN p ELSE base \o p

Parent(p) == IF Len(p) <= 1 THEN p ELSE SubSeq(p, 1, Len(p) - 1)

\* Path.is_relative_to on two resolved paths: anc is a prefix of p
IsRelativeTo(p, anc) == Len(anc) <= Len(p) /\ SubSeq(p, 1, Len(anc)) = anc

RECURSIVE PathStr(_)
\* str(relative_path): the segments joined by "/"
PathStr(rel) ==
    IF rel = <<>> THEN <<".">>
    ELSE IF Len(rel) = 1 THEN rel[1]
    ELSE rel[1] \o <<"/">> \o PathStr(Tail(rel))

\* relative_path.name
PathName(rel) == IF rel = <<>> THEN <<>> ELSE rel[Len(rel)]

RECURSIVE ResolveFrom(_, _, _)
\* Path.resolve(): walk the segments from cur, following the symbolic links
\* of links (a function from a canonical path to its canonical target) and
\* taking ".." as the parent of what has been resolved so far.
ResolveFrom(cur, rest, links) ==
    IF rest = <<>> THEN cur
    ELSE IF Head(rest) = DOTDOT THEN ResolveFrom(Parent(cur), Tail(rest), links)
    ELSE LET cand == Append(cur, Head(rest))
         IN  ResolveFrom(IF cand \in DOMAIN links THEN links[cand] ELSE cand,
                         Tail(rest), links)

Resolve(p, links) == ResolveFrom(<<ROOT>>, Tail(p), links)

\* -------------------------------------------------------- path policy ----

\* settings.private_folder (config.py) as the pattern load_forbidden_patterns adds
PrivatePattern == <<"04_Recursos", "/", "Privado", "/", "*">>

\* load_forbidden_patterns: the cached list if there is one; else the lines of
\* the first .forbidden_paths file that can be read (a file that cannot be read
\* is skipped), plus the private-folder pattern.  locations is the sequence of
\* candidate files, each [state, lines].
RECURSIVE FirstReadable(_)
FirstReadable(locations) ==
    IF locations = <<>> THEN <<>>
    ELSE IF Head(locations).state = "ok" THEN Head(locations).lines
    ELSE FirstReadable(Tail(locations))

load_forbidden_patterns(cache, locations) ==
    IF cache # None THEN cache
    ELSE LET patterns == FirstReadable(locations)
         IN  IF \E i \in 1..Len(patterns) : patterns[i] = PrivatePattern
             THEN patterns
             ELSE Append(patterns, PrivatePattern)

\* The loop body without its "**" branch: every pattern is a plain fnmatch
\* pattern or a prefix.
PatternForbidsPlain(rel, pattern) ==
    LET relative_str == PathStr(rel)
    IN  \/ FnMatch(relative_str, pattern)
        \/ StartsWith(relative_str, RStrip(pattern, "*"))

\* One iteration of the loop of is_path_forbidden: does pattern forbid rel?
PatternForbids(rel, pattern) ==
    LET relative_str == PathStr(rel)
    IN  IF \E i \in 1..(Len(pattern) - 1) : pattern[i] = "*" /\ pattern[i + 1] = "*"  \* "**" in pattern
        THEN LET pattern_parts == SplitStarStar(pattern, <<>>)
             IN  IF Len(pattern_parts) = 2
                 THEN LET suffix == LStrip(pattern_parts[2], "/")
                      IN  \/ FnMatch(relative_str, <<"*">> \o suffix)
                          \/ FnMatch(PathName(rel), LStrip(suffix, "*"))
                 ELSE FALSE
        ELSE \/ FnMatch(relative_str, pattern)
             \/ StartsWith(relative_str, RStrip(pattern, "*"))

\* is_path_forbidden: TRUE (forbidden) without a vault, on an error (err), for
\* an absolute path that is not lexically under the vault, and when a pattern
\* matches the vault-relative string.  The path is not resolved here.
is_path_forbidden(path, vault, patterns, err) ==
    IF vault = None THEN TRUE
    ELSE IF err = "match" THEN TRUE
    ELSE IF IsAbsolute(path) /\ ~IsRelativeTo(path, vault) THEN TRUE
    ELSE LET rel == IF IsAbsolute(path)
                    THEN SubSeq(path, Len(vault) + 1, Len(path))
                    ELSE path
         IN  \E i \in 1..Len(patterns) : PatternForbids(rel, patterns[i])

\* validate_path_within_vault: the resolved path is under the resolved vault
validate_path_within_vault(path, vault, links, err) ==
    IF vault = None THEN FALSE
    ELSE IF err = "resolve" THEN FALSE
    ELSE IsRelativeTo(Resolve(Join(vault, path), links), Resolve(vault, links))

\* check_path_access: allowed iff valid and not forbidden
check_path_access(path, vault, links, patterns, err) ==
    /\ validate_path_within_vault(path, vault, links, err)
    /\ ~is_path_forbidden(path, vault, patterns, err)

\* is_path_in_restricted_folder: each restricted folder is joined to the vault
\* as a literal relative path and resolved; TRUE without a vault.
is_path_in_restricted_folder(path, restricted_folders, vault, links) ==
    IF vault = None THEN TRUE
    ELSE \E i \in 1..Len(restricted_folders) :
            IsRelativeTo(Resolve(Join(vault, path), links),
                         Resolve(Join(vault, restricted_folders[i]), links))

\* --------------------------------------------------------- the vault ----

VARIABLES
    vault_path,          \* get_vault_path(): None or the vault root
    files,               \* the regular files: canonical path -> content
    dirs,                \* the directories: a set of canonical paths
    links,               \* the symbolic links: canonical path -> canonical target
    forbidden_file,      \* <vault>/.forbidden_paths: "absent", "ok" or "unreadable"
    forbidden_patterns,  \* security._forbidden_patterns: None or the cached list
    note_cache,          \* vault._note_cache: cache key -> path or None (live entries)
    last,                \* the last call: operation, result and what it touched
    tasks,               \* the concurrent append_to_note calls: task -> position
    mtime,               \* st_mtime of the files: canonical path -> time
    store,               \* the vector store at db_path: None or source -> chunks
    tracker,             \* the tracker's metadata.json: None or path -> signature
    service,             \* the SemanticService: its _db and what index_vault returned
    callers,             \* the index_vault calls in progress: caller -> position
    snap                 \* the store and tracker a forced run left, until a file changes

idxVars == <<mtime, store, tracker, service, callers, snap>>
vars == <<vault_path, files, dirs, links, forbidden_file, forbidden_patterns,
          note_cache, last, tasks, mtime, store, tracker, service, callers, snap>>

sVault == <<"vault">>
sPrivate == <<"Private">>
sOutside == <<"outside">>
VaultRoot == <<ROOT, sVault>>
Md == ".md"

\* The lines of the vault's .forbidden_paths file (spec.md, scenario 4)
ForbiddenLines == << <<"*", "*", "/", "Private", "/", "*">> >>

\* possible_locations of load_forbidden_patterns: the project root (no file
\* there) and the vault
Locations == << [state |-> "absent", lines |-> <<>>],
                [state |-> forbidden_file, lines |-> ForbiddenLines] >>

Patterns == load_forbidden_patterns(forbidden_patterns, Locations)

RECURSIVE SplitSlash(_, _)
\* Path(string): the segments between the "/" of a string; acc is the segment
\* being read.  Empty segments are dropped, as pathlib does.
SplitSlash(s, acc) ==
    IF s = <<>> THEN (IF acc = <<>> THEN <<>> ELSE <<acc>>)
    ELSE IF Head(s) = "/"
         THEN (IF acc = <<>> THEN <<>> ELSE <<acc>>) \o SplitSlash(Tail(s), <<>>)
         ELSE SplitSlash(Tail(s), Append(acc, Head(s)))

ToPath(s) == SplitSlash(s, <<>>)

\* What the operating system finds at a lexical path: every directory on the
\* way must exist.
Walkable(p) == \A i \in 1..(Len(p) - 1) : Resolve(SubSeq(p, 1, i), links) \in dirs
IsFile(p) == Walkable(p) /\ Resolve(p, links) \in DOMAIN files
IsDir(p) == Walkable(p) /\ Resolve(p, links) \in dirs
Exists(p) == IsFile(p) \/ IsDir(p)

\* Path.mkdir(parents=True, exist_ok=True): every lexical prefix of p, resolved
MkdirParents(p) == dirs \cup {Resolve(SubSeq(p, 1, i), links) : i \in 1..Len(p)}
MkdirFails(p) == \E i \in 1..Len(p) : Resolve(SubSeq(p, 1, i), links) \in DOMAIN files

\* sanitize_filename: "/" and the other problematic characters become "-",
\* and ".md" is added when the name does not end with it.
Problematic == {"/", "\\", "<", ">", ":", "\"", "|", "?", "*"}
sanitize_filename(filename) ==
    LET sanitized == [i \in 1..Len(filename) |->
                        IF filename[i] \in Problematic THEN "-" ELSE filename[i]]
    IN  IF sanitized # <<>> /\ sanitized[Len(sanitized)] = Md
        THEN sanitized
        ELSE Append(sanitized, Md)

\* ------------------------------------------------------- note lookup ----

\* cache_key = name.lower().replace(".md", "") (names are lower case here)
CacheKey(name) == SelectSeq(name, LAMBDA c : c # Md)

\* file_path.stem
Stem(seg) == IF seg # <<>> /\ seg[Len(seg)] = Md THEN SubSeq(seg, 1, Len(seg) - 1) ELSE seg

\* vault_path.rglob("*.md"): the entries lexically under the vault
RGlobMd(vault) ==
    {p \in (DOMAIN files) \cup (DOMAIN links) :
        /\ IsRelativeTo(p, vault) /\ Len(p) > Len(vault)
        /\ PathName(p)[Len(PathName(p))] = Md}

\* _find_note_by_name_impl: the set of paths the lookup may return (the walk
\* order of rglob decides between two notes of the same stem); {None} if none.
find_note_by_name_impl(name) ==
    IF vault_path = None THEN {None}
    ELSE IF \E i \in 1..Len(name) : name[i] = "/"
         THEN LET note_path == Join(vault_path, ToPath(name))
              IN  IF Exists(note_path) THEN {note_path} ELSE {None}
         ELSE LET found == {p \in RGlobMd(vault_path) :
                               Stem(PathName(p)) = CacheKey(name)}
              IN  IF found = {} THEN {None} ELSE found

\* find_note_by_name without the test of line 96: a live cache entry is
\* returned whether its path still exists or not.
find_note_by_name_unchecked(name) ==
    LET key == CacheKey(name)
    IN  IF key \in DOMAIN note_cache
        THEN {[path |-> note_cache[key], cache |-> note_cache]}
        ELSE {[path |-> r,
               cache |-> [k \in (DOMAIN note_cache) \cup {key} |->
                            IF k = key THEN r ELSE note_cache[k]]] :
              r \in find_note_by_name_impl(name)}

\* find_note_by_name: a live cache entry that is None, or whose path exists,
\* is returned as it is; otherwise the lookup runs and its result is cached.
\* (An entry older than the TTL is modelled as removed: see Expire.)
find_note_by_name(name) ==
    LET key == CacheKey(name)
    IN  IF key \in DOMAIN note_cache
           /\ (note_cache[key] = None \/ Exists(note_cache[key]))
        THEN {[path |-> note_cache[key], cache |-> note_cache]}
        ELSE {[path |-> r,
               cache |-> [k \in (DOMAIN note_cache) \cup {key} |->
                            IF k = key THEN r ELSE note_cache[k]]] :
              r \in find_note_by_name_impl(name)}

\* ------------------------------------------------------- front matter ----

\* A note's text is a sequence of symbols; NL ends a line and SP is a space.
NL == "\n"
SP == " "
DASHES == "---"
\* datetime.now().strftime("%Y-%m-%d")
Today == "today"

RECURSIVE SplitLines(_)
\* str.split("\n")
SplitLines(s) ==
    IF \A i \in 1..Len(s) : s[i] # NL THEN <<s>>
    ELSE LET i == CHOOSE j \in 1..Len(s) : s[j] = NL /\ \A k \in 1..(j - 1) : s[k] # NL
         IN  <<SubSeq(s, 1, i - 1)>> \o SplitLines(SubSeq(s, i + 1, Len(s)))

RECURSIVE JoinLines(_)
\* "\n".join(lines)
JoinLines(ls) ==
    IF ls = <<>> THEN <<>>
    ELSE IF Len(ls) = 1 THEN ls[1]
    ELSE ls[1] \o <<NL>> \o JoinLines(Tail(ls))

RECURSIVE LStripWs(_)
\* str.lstrip()
LStripWs(s) == IF s # <<>> /\ Head(s) \in {SP, NL} THEN LStripWs(Tail(s)) ELSE s

\* _process_date_placeholders (creation_logic.py 42-146): {{date}} becomes
\* today's date, and so does YYYY-MM-DD as the value of created: or updated:
\* (the patterns of lines 135 and 140: the key, white space, the literal)
_process_date_placeholders(content) ==
    LET AfterDateKey(i) ==
            \E j \in 1..(i - 1) : /\ content[j] \in {"created:", "updated:"}
                                  /\ \A k \in (j + 1)..(i - 1) : content[k] \in {SP, NL}
    IN  [i \in 1..Len(content) |->
            IF content[i] = "{{date}}" THEN Today
            ELSE IF content[i] = "YYYY-MM-DD" /\ AfterDateKey(i) THEN Today
            ELSE content[i]]

\* The first of a set of positions (re.search, re.sub with count=1)
FirstOf(S) == CHOOSE i \in S : \A j \in S : i <= j

\* The spaces that follow the key of a line
RECURSIVE LeadingSpaces(_)
LeadingSpaces(s) ==
    IF s # <<>> /\ Head(s) = SP THEN <<SP>> \o LeadingSpaces(Tail(s)) ELSE <<>>

\* Lines 309-331 of edit_note on the processed content.  Only a content that
\* starts with --- is touched: the value of its first updated: line becomes
\* today; or, with no such line, an updated: line is put after its first
\* created: line; or, with neither, before the first "\n---\n".  Every
\* created: and updated: line of the contents of this model has a value on
\* the line.
TouchUpdated(contenido) ==
    LET ls == SplitLines(contenido)
        upd == <<"updated:", SP, Today>>
        closing == {i \in 2..(Len(ls) - 1) : ls[i] = <<DASHES>>}
        \* the lines that begin with key (re.search(r"^key", ..., re.MULTILINE))
        KeyLines(key) == {i \in 1..Len(ls) : ls[i] # <<>> /\ ls[i][1] = key}
        InsertLine(at, line) == SubSeq(ls, 1, at - 1) \o <<line>> \o SubSeq(ls, at, Len(ls))
    IN  IF ~(contenido # <<>> /\ contenido[1] = DASHES) THEN contenido
        ELSE IF KeyLines("updated:") # {}
        THEN LET i == FirstOf(KeyLines("updated:"))
             IN  JoinLines([ls EXCEPT ![i] =
                     <<"updated:">> \o LeadingSpaces(Tail(ls[i])) \o <<Today>>])
        ELSE IF KeyLines("created:") # {}
        THEN JoinLines(InsertLine(FirstOf(KeyLines("created:")) + 1, upd))
        ELSE IF closing # {} THEN JoinLines(InsertLine(FirstOf(closing), upd))
        ELSE contenido

\* yaml.safe_load of the lines of a block.  A mapping is a sequence of entries
\* <<key, "scalar", value>> or <<key, "list", item, ...>>.  A line "key: v" is
\* a scalar ("key: []" the empty list), a line "key:" opens a list whose items
\* are the "- item" lines below it, "{}" is the empty mapping; any other line
\* makes the block something else than a mapping.
RECURSIVE YamlLoad(_, _)
YamlLoad(ls, acc) ==
    IF ls = <<>> THEN [ok |-> TRUE, metadata |-> acc]
    ELSE LET l == Head(ls)
             IsKey(t) == t \in {"title:", "created:", "updated:", "tags:", "status:"}
             IsScalarLine == Len(l) = 3 /\ IsKey(l[1]) /\ l[2] = SP
             IsListHead == Len(l) = 1 /\ IsKey(l[1])
             IsItemLine == Len(l) = 3 /\ l[1] = "-" /\ l[2] = SP
         IN  IF l = <<>> \/ l = <<"{}">> THEN YamlLoad(Tail(ls), acc)
             ELSE IF IsScalarLine
             THEN YamlLoad(Tail(ls),
                      Append(acc, IF l[3] = "[]" THEN <<l[1], "list">>
                                  ELSE <<l[1], "scalar", l[3]>>))
             ELSE IF IsListHead
             THEN YamlLoad(Tail(ls), Append(acc, <<l[1], "list">>))
             ELSE IF IsItemLine /\ acc # <<>> /\ acc[Len(acc)][2] = "list"
             THEN YamlLoad(Tail(ls), [acc EXCEPT ![Len(acc)] = Append(@, l[3])])
             ELSE [ok |-> FALSE, metadata |-> <<>>]

\* yaml.dump(metadata, default_flow_style=False, sort_keys=False), line by line
RECURSIVE YamlDumpLines(_)
YamlDumpLines(metadata) ==
    IF metadata = <<>> THEN <<>>
    ELSE LET e == Head(metadata)
         IN  (IF e[2] = "scalar" THEN << <<e[1], SP, e[3]>> >>
              ELSE IF Len(e) = 2 THEN << <<e[1], SP, "[]">> >>
              ELSE << <<e[1]>> >> \o [i \in 1..(Len(e) - 2) |-> <<"-", SP, e[i + 2]>>])
             \o YamlDumpLines(Tail(metadata))

\* _extract_frontmatter_from_content (creation_logic.py 149-164): the pattern
\* ^---\s*\n(.*?)\n---\s*\n? matches a content whose first line is --- and
\* which has a later line, after at least one line, that starts with ---; the
\* lines between are loaded as YAML.  The body is what follows that ---, with
\* its leading white space stripped (the \s* of the pattern, then lstrip()).
\* Without a match, or when the block is not a mapping, the metadata is empty
\* and the body is the whole content.
_extract_frontmatter_from_content(contenido) ==
    LET ls == SplitLines(contenido)
        closing == {i \in 3..Len(ls) : ls[i] # <<>> /\ ls[i][1] = DASHES}
        k == FirstOf(closing)
        loaded == YamlLoad(SubSeq(ls, 2, k - 1), <<>>)
        rest == JoinLines(<<Tail(ls[k])>> \o SubSeq(ls, k + 1, Len(ls)))
    IN  IF ~(ls[1] # <<>> /\ ls[1][1] = DASHES /\ LStripWs(Tail(ls[1])) = <<>>) \/ closing = {}
        THEN [metadata |-> <<>>, cuerpo |-> contenido]
        ELSE IF ~loaded.ok THEN [metadata |-> <<>>, cuerpo |-> contenido]
        ELSE [metadata |-> loaded.metadata, cuerpo |-> LStripWs(rest)]

\* metadata.get(key): the entry of key without its key, or None
MetadataGet(metadata, key) ==
    LET S == {i \in 1..Len(metadata) : metadata[i][1] = key}
    IN  IF S = {} THEN None ELSE Tail(metadata[FirstOf(S)])

\* metadata[key] = entry: in place when the key is there, at the end otherwise
MetadataSet(metadata, entry) ==
    LET S == {i \in 1..Len(metadata) : metadata[i][1] = entry[1]}
    IN  IF S = {} THEN Append(metadata, entry)
        ELSE [metadata EXCEPT ![FirstOf(S)] = entry]

RECURSIVE MetadataUpdate(_, _)
\* metadata.update(updates_dict)
MetadataUpdate(metadata, updates) ==
    IF updates = <<>> THEN metadata
    ELSE MetadataUpdate(MetadataSet(metadata, Head(updates)), Tail(updates))


\* --------------------------------------------------------- write path ----

\* The content of a file, <<"<absent>">> for a file that does not exist
ContentAt(fs, p) == IF p \in DOMAIN fs THEN fs[p] ELSE <<"<absent>">>

\* open(path, "w") followed by f.write(content): the file is truncated when it
\* is opened and filled by the write.  wr is how the write ends: "ok", or
\* "truncated" when it fails (an OSError, a kill) after the file was opened.
WriteOutcomes == {"ok", "truncated"}

WriteFile(fs, target, content, wr) ==
    [q \in (DOMAIN fs) \cup {target} |-> IF q # target THEN fs[q]
                                       ELSE IF wr = "ok" THEN content ELSE <<>>]

RemoveFile(fs, target) == [q \in (DOMAIN fs) \ {target} |-> fs[q]]

\* A handler's outcome: its result kind, the filesystem it leaves, the
\* canonical paths whose content it read or which it created, wrote, removed
\* or renamed (touched), the write it attempted (<<>> or <<[path, before,
\* intended]>>), and whether it loaded the forbidden patterns.
Outcome(res, fs, ds, touched, write, loaded) ==
    [res |-> res, files |-> fs, dirs |-> ds, touched |-> touched,
     write |-> write, loaded |-> loaded]

Unchanged(res, loaded) == Outcome(res, files, dirs, {}, <<>>, loaded)

\* Does a call of check_path_access on path reach load_forbidden_patterns?
LoadsPatterns(path) ==
    /\ validate_path_within_vault(path, vault_path, links, "none")
    /\ ~(IsAbsolute(path) /\ ~IsRelativeTo(path, vault_path))

Allowed(path) == check_path_access(path, vault_path, links, Patterns, "none")

\* The templates folder of create_note: no .agents/vault.yaml is modelled, so
\* it is the directory of the vault root whose name contains "template".
sTemplates == <<"Templates">>
TemplatesFolder == IF Append(VaultRoot, sTemplates) \in dirs THEN <<sTemplates>> ELSE None

\* suggest_folder_location as create_note uses it: the folder between
\* backticks of the suggestion, or the vault root when there is none.
SuggestedFolders == {<<>>}

\* create_note (creation_logic.py 476-651).  folder is carpeta, or the
\* suggested folder when carpeta is empty.
create_note(titulo, contenido, folder, plantilla, wr) ==
    IF vault_path = None THEN Unchanged("config_error", FALSE)
    ELSE
    LET nombre_archivo == sanitize_filename(titulo)
        carpeta_path == Join(vault_path, ToPath(folder))
        nota_path == Append(carpeta_path, nombre_archivo)
        made == MkdirParents(carpeta_path)
        created == made \ dirs
        loaded == LoadsPatterns(nota_path)
        target == Resolve(nota_path, links)
        plantilla_path ==
            LET q == Join(vault_path, TemplatesFolder \o ToPath(plantilla))
            IN  IF plantilla[Len(plantilla)] = Md THEN q
                ELSE [q EXCEPT ![Len(q)] = Append(@, Md)]   \* with_suffix(".md")
        plantilla_real == Resolve(plantilla_path, links)
        body == IF plantilla = <<>>
                THEN <<"fm", "h1">> \o contenido
                ELSE files[plantilla_real] \o <<"nn">> \o contenido
        read == IF plantilla = <<>> THEN {} ELSE {plantilla_real}
    IN  IF MkdirFails(carpeta_path) THEN Unchanged("internal", FALSE)
        ELSE IF ~Allowed(nota_path)
             THEN Outcome("forbidden", files, made, created, <<>>, loaded)
        ELSE IF target \in DOMAIN files \/ target \in made
             THEN Outcome("conflict", files, made, created, <<>>, loaded)
        ELSE IF plantilla # <<>> /\ TemplatesFolder = None
             THEN Outcome("not_found", files, made, created, <<>>, loaded)
        ELSE IF plantilla # <<>> /\ ~(Walkable(plantilla_path) /\ plantilla_real \in DOMAIN files)
             THEN Outcome("not_found", files, made, created, <<>>, loaded)
        ELSE Outcome(IF wr = "ok" THEN "ok" ELSE "internal",
                     WriteFile(files, target, body, wr), made,
                     created \cup read \cup {target},
                     << [path |-> target, before |-> ContentAt(files, target),
                           intended |-> body] >>,
                     loaded)

\* The part edit_note, append_to_note, delete_note and read_note share after
\* the lookup returned nota_path: not found, or denied by the path policy.
Denied(nota_path) ==
    IF nota_path = None THEN "not_found"
    ELSE IF ~Allowed(nota_path) THEN "forbidden"
    ELSE "pass"

\* edit_note (creation_logic.py 285-337) on the path the lookup returned: the
\* new content, with its date placeholders replaced and its updated: line set,
\* is written over the note.
edit_note(nota_path, nuevo_contenido, wr) ==
    IF vault_path = None THEN Unchanged("config_error", FALSE)
    ELSE IF Denied(nota_path) # "pass"
         THEN Unchanged(Denied(nota_path), nota_path # None /\ LoadsPatterns(nota_path))
    ELSE LET target == Resolve(nota_path, links)
             contenido_procesado == TouchUpdated(_process_date_placeholders(nuevo_contenido))
         IN  IF target \in dirs THEN Unchanged("internal", TRUE)
             ELSE Outcome(IF wr = "ok" THEN "ok" ELSE "internal",
                          WriteFile(files, target, contenido_procesado, wr), dirs, {target},
                          << [path |-> target, before |-> ContentAt(files, target),
                                intended |-> contenido_procesado] >>, TRUE)

\* delete_note (creation_logic.py 254-282) on the path the lookup returned
delete_note(nota_path) ==
    IF vault_path = None THEN Unchanged("config_error", FALSE)
    ELSE IF Denied(nota_path) # "pass"
    THEN Unchanged(Denied(nota_path), nota_path # None /\ LoadsPatterns(nota_path))
    ELSE LET target == Resolve(nota_path, links)
         IN  IF target \in dirs THEN Unchanged("internal", TRUE)
             ELSE Outcome("ok", RemoveFile(files, target), dirs, {target}, <<>>, TRUE)

\* The write that ends update_frontmatter_logic and manage_tags_logic
MetadataWrite(nota_path, metadata, cuerpo, wr) ==
    LET target == Resolve(nota_path, links)
        yaml_content == IF metadata = <<>> THEN <<"{}", NL>>
                        ELSE JoinLines(YamlDumpLines(metadata)) \o <<NL>>
        \* f"---\n{yaml_content}---\n{cuerpo}"
        nuevo_contenido == <<DASHES, NL>> \o yaml_content \o <<DASHES, NL>> \o cuerpo
    IN  Outcome(IF wr = "ok" THEN "ok" ELSE "internal",
                WriteFile(files, target, nuevo_contenido, wr), dirs, {target},
                << [path |-> target, before |-> ContentAt(files, target),
                      intended |-> nuevo_contenido] >>, TRUE)

\* update_frontmatter_logic (creation_logic.py 1000-1058) on the path the
\* lookup returned.  updates is the mapping that json.loads returns, or None
\* when frontmatter_updates is not JSON.
update_frontmatter_logic(nota_path, updates, merge, wr) ==
    IF vault_path = None THEN Unchanged("config_error", FALSE)
    ELSE IF Denied(nota_path) # "pass"
    THEN Unchanged(Denied(nota_path), nota_path # None /\ LoadsPatterns(nota_path))
    ELSE IF updates = None THEN Unchanged("invalid", TRUE)
    ELSE IF Resolve(nota_path, links) \in dirs THEN Unchanged("internal", TRUE)
    ELSE LET split == _extract_frontmatter_from_content(files[Resolve(nota_path, links)])
         IN  MetadataWrite(nota_path,
                           IF merge THEN MetadataUpdate(split.metadata, updates) ELSE updates,
                           split.cuerpo, wr)

RECURSIVE AddTags(_, _)
AddTags(tags_list, input_tags) ==
    IF input_tags = <<>> THEN tags_list
    ELSE AddTags(IF \E i \in 1..Len(tags_list) : tags_list[i] = Head(input_tags)
                 THEN tags_list ELSE Append(tags_list, Head(input_tags)),
                 Tail(input_tags))

RECURSIVE RemoveTags(_, _)
RemoveTags(tags_list, input_tags) ==
    IF tags_list = <<>> THEN <<>>
    ELSE (IF \E i \in 1..Len(input_tags) : input_tags[i] = Head(tags_list)
          THEN <<>> ELSE <<Head(tags_list)>>) \o RemoveTags(Tail(tags_list), input_tags)

\* manage_tags_logic (creation_logic.py 1061-1138) on the path the lookup
\* returned; input_tags is tags split at its commas
manage_tags_logic(nota_path, operation, input_tags, wr) ==
    IF vault_path = None THEN Unchanged("config_error", FALSE)
    ELSE IF Denied(nota_path) # "pass"
    THEN Unchanged(Denied(nota_path), nota_path # None /\ LoadsPatterns(nota_path))
    ELSE IF Resolve(nota_path, links) \in dirs THEN Unchanged("internal", TRUE)
    ELSE LET split == _extract_frontmatter_from_content(files[Resolve(nota_path, links)])
             \* the tags as a list: the items of a list, the one tag of a scalar
             \* (no scalar of this model holds a comma), nothing otherwise
             tags == MetadataGet(split.metadata, "tags:")
             tags_list == IF tags = None THEN <<>> ELSE Tail(tags)
         IN  IF operation = "list" THEN Unchanged("ok", TRUE)
             ELSE IF operation \notin {"add", "remove"} THEN Unchanged("invalid", TRUE)
             ELSE MetadataWrite(nota_path,
                      MetadataSet(split.metadata,
                          <<"tags:", "list">> \o (IF operation = "add"
                                                  THEN AddTags(tags_list, input_tags)
                                                  ELSE RemoveTags(tags_list, input_tags))),
                      split.cuerpo, wr)

\* read_note (navigation_logic.py 126-157) on the path the lookup returned
read_note(nota_path) ==
    IF Denied(nota_path) # "pass"
    THEN Unchanged(Denied(nota_path), nota_path # None /\ LoadsPatterns(nota_path))
    ELSE LET target == Resolve(nota_path, links)
         IN  IF target \in dirs THEN Unchanged("internal", TRUE)
             ELSE Outcome("ok", files, dirs, {target}, <<>>, TRUE)

\* The private folders of move_note when no .agents/vault.yaml gives any
PrivateFolders == << << <<"*", "*">>, <<"Private">> >>,
                     << <<"*", "*">>, <<"Privado">>, <<"*">> >> >>

\* str(path) of an absolute or relative path
StrOf(p) == IF IsAbsolute(p) THEN ROOT \o (IF Len(p) = 1 THEN <<>> ELSE PathStr(Tail(p))) ELSE PathStr(p)

\* The message validate_path_within_vault returns with False
\* (security.py 201-221); the path of line 216 is vault_path / path
ValidationError(path, vault, err) ==
    IF vault = None THEN <<"Vault path not configured">>
    ELSE IF err = "resolve" THEN <<"Path validation error: ", "<exception>">>
    ELSE <<"Path escapes vault directory: ">> \o StrOf(Join(vault, path))

\* The text of the failure move_note returns when it denies the move
\* (navigation_logic.py 235-256)
move_note_error(origen, destino) ==
    LET src == ToPath(origen)
        dst == ToPath(destino)
    IN  IF ~validate_path_within_vault(src, vault_path, links, "none")
        THEN <<"Error de seguridad (origen): ">>
                 \o ValidationError(src, vault_path, "none")
        ELSE IF ~validate_path_within_vault(dst, vault_path, links, "none")
        THEN <<"Error de seguridad (destino): ">>
                 \o ValidationError(dst, vault_path, "none")
        ELSE IF is_path_in_restricted_folder(src, PrivateFolders, vault_path, links)
        THEN <<"ACCESO DENEGADO: No se permite mover archivos desde carpetas restringidas">>
        ELSE <<"ACCESO DENEGADO: No se permite mover archivos hacia carpetas restringidas">>

\* move_note (navigation_logic.py 220-277)
move_note(origen, destino, crear_carpetas) ==
    IF vault_path = None THEN Unchanged("config_error", FALSE)
    ELSE
    LET src == ToPath(origen)
        dst == ToPath(destino)
        path_origen == Join(vault_path, src)
        path_destino == Join(vault_path, dst)
        from == Resolve(path_origen, links)
        to == Resolve(path_destino, links)
        made == MkdirParents(Parent(path_destino))
    IN  IF ~validate_path_within_vault(src, vault_path, links, "none")
        THEN Unchanged("forbidden", FALSE)
        ELSE IF ~validate_path_within_vault(dst, vault_path, links, "none")
        THEN Unchanged("forbidden", FALSE)
        ELSE IF is_path_in_restricted_folder(src, PrivateFolders, vault_path, links)
        THEN Unchanged("forbidden", FALSE)
        ELSE IF is_path_in_restricted_folder(dst, PrivateFolders, vault_path, links)
        THEN Unchanged("forbidden", FALSE)
        ELSE IF ~Exists(path_origen) THEN Unchanged("not_found", FALSE)
        ELSE IF ~IsFile(path_origen) THEN Unchanged("validation", FALSE)
        ELSE IF Exists(path_destino) THEN Unchanged("conflict", FALSE)
        ELSE IF ~crear_carpetas /\ ~IsDir(Parent(path_destino))
        THEN Unchanged("not_found", FALSE)
        ELSE IF crear_carpetas /\ MkdirFails(Parent(path_destino))
        THEN Unchanged("internal", FALSE)
        ELSE Outcome("ok",
                     [q \in ((DOMAIN files) \ {from}) \cup {to} |->
                        IF q = to THEN files[from] ELSE files[q]],
                     IF crear_carpetas THEN made ELSE dirs,
                     (IF crear_carpetas THEN made \ dirs ELSE {}) \cup {from, to},
                     <<>>, FALSE)

\* ------------------------------------------- the write path, call by call ----

EmptyMap == [x \in {} |-> x]

\* What the calls of this model are made with
Titles == {<<"secret">>}
Bodies == {<<"b">>}
Folders == {<<>>, <<"Private">>, <<"..", "/", "escape">>}
Plantillas == {<<>>, <<"t">>, <<"..", "/", "..", "/", "outside", "/", "o">>}
Names == {<<"note">>, <<"key">>, <<"link">>, <<"..", "/", "outside", "/", "o", Md>>}
NewContents == {<<"x", "y">>}
MoveFrom == {<<"note", Md>>, <<"Private", "/", "key", Md>>}
MoveTo == {<<"pub", Md>>, <<"..", "/", "outside", "/", "x", Md>>}

FsInit ==
    /\ vault_path \in {None, VaultRoot}
    /\ files = (<<ROOT, sVault, <<"note", Md>>>> :> <<"old">>)
            @@ (<<ROOT, sVault, sPrivate, <<"key", Md>>>> :> <<"key">>)
            @@ (<<ROOT, sVault, sTemplates, <<"t", Md>>>> :> <<"tpl">>)
            @@ (<<ROOT, sOutside, <<"o", Md>>>> :> <<"ext">>)
    /\ dirs = {<<ROOT>>, VaultRoot, <<ROOT, sOutside>>, Append(VaultRoot, sPrivate),
               Append(VaultRoot, sTemplates)}
    /\ links \in {EmptyMap,
                  (<<ROOT, sVault, <<"link", Md>>>> :> <<ROOT, sOutside, <<"o", Md>>>>)}
    /\ forbidden_file \in {"absent", "ok", "unreadable"}
    /\ forbidden_patterns = None
    /\ note_cache = EmptyMap
    /\ last = [op |-> "init", arg |-> <<>>, res |-> "ok", touched |-> {},
                write |-> <<>>, mutated |-> FALSE]

\* The state a call leaves: the handler's outcome out, and the note cache.
\* last records the call: its operation, its argument (for create_note the
\* folder, for move_note the two paths), and what the outcome says it did.
Apply(op, arg, out, cache) ==
    /\ files' = out.files
    /\ dirs' = out.dirs
    /\ forbidden_patterns' = IF out.loaded THEN Patterns ELSE forbidden_patterns
    /\ note_cache' = cache
    /\ last' = [op |-> op, arg |-> IF op \in {"create", "move", "append_section"} THEN arg ELSE <<>>,
                res |-> out.res, touched |-> out.touched, write |-> out.write,
                mutated |-> (out.files # files \/ out.dirs # dirs)]
    /\ UNCHANGED <<vault_path, links, forbidden_file>>

CreateNote ==
    \E titulo \in Titles, contenido \in Bodies, carpeta \in Folders,
       plantilla \in Plantillas, wr \in WriteOutcomes :
        \E folder \in (IF carpeta = <<>> THEN SuggestedFolders ELSE {carpeta}) :
            Apply("create", carpeta,
                  create_note(titulo, contenido, folder, plantilla, wr), note_cache)

EditNote ==
    \E name \in Names, nuevo \in NewContents, wr \in WriteOutcomes :
        IF vault_path = None
        THEN Apply("edit", name, edit_note(None, nuevo, wr), note_cache)
        ELSE \E f \in find_note_by_name(name) :
                Apply("edit", name, edit_note(f.path, nuevo, wr), f.cache)

DeleteNote ==
    \E name \in Names, confirmar \in BOOLEAN :
        IF vault_path = None
        THEN Apply("delete", name, delete_note(None), note_cache)
        ELSE IF ~confirmar
        THEN Apply("delete", name, Unchanged("validation", FALSE), note_cache)
        ELSE \E f \in find_note_by_name(name) :
                Apply("delete", name, delete_note(f.path), f.cache)

ReadNote ==
    \E name \in Names :
        \E f \in find_note_by_name(name) :
            Apply("read", name, read_note(f.path), f.cache)

MoveNote ==
    \E origen \in MoveFrom, destino \in MoveTo, crear_carpetas \in BOOLEAN :
        Apply("move", <<origen, destino>>, move_note(origen, destino, crear_carpetas), note_cache)

\* time() - cached_time >= cache_ttl: an entry of the note cache grows too old
\* to be used; a lookup then treats it as if it were not there.
Expire ==
    \E key \in DOMAIN note_cache :
        /\ note_cache' = [k \in (DOMAIN note_cache) \ {key} |-> note_cache[k]]
        /\ UNCHANGED <<vault_path, files, dirs, links, forbidden_file,
                       forbidden_patterns, last>>

\* A direct call of check_path_access, as the tests make it.  err is where an
\* exception is raised inside it, if anywhere: "resolve" in Path.resolve(),
\* "match" while the patterns are matched.  A failure to read .forbidden_paths
\* is the state "unreadable" of that file.
CheckPaths == {<<<<"note", Md>>>>, <<sPrivate, <<"key", Md>>>>,
               <<<<"link", Md>>>>, <<DOTDOT, sOutside, <<"o", Md>>>>,
               <<ROOT, sOutside, <<"o", Md>>>>,
               <<<<"04_Recursos">>, <<"Privado">>, <<"a", Md>>>>,
               <<<<"x">>, DOTDOT, sPrivate, <<"key", Md>>>>}
CheckErrors == {"none", "resolve", "match"}

CheckAccess ==
    \E path \in CheckPaths, err \in CheckErrors :
        LET loads == /\ validate_path_within_vault(path, vault_path, links, err)
                     /\ ~(IsAbsolute(path) /\ ~IsRelativeTo(path, vault_path))
        IN  /\ last' = [op |-> "check", arg |-> path, err |-> err,
                        load_failed |-> loads /\ forbidden_patterns = None
                                              /\ forbidden_file = "unreadable",
                        res |-> IF check_path_access(path, vault_path, links, Patterns, err)
                                THEN "ok" ELSE "forbidden",
                        touched |-> {}, write |-> <<>>, mutated |-> FALSE]
            /\ forbidden_patterns' = IF loads THEN Patterns ELSE forbidden_patterns
            /\ UNCHANGED <<vault_path, files, dirs, links, forbidden_file, note_cache>>


\* ------------------------------------------- edits of the front matter ----

\* A note with front matter
Fm(lines, body) == <<DASHES, NL>> \o JoinLines(lines) \o <<NL, DASHES, NL>> \o body

\* The notes that note.md starts as: with no front matter, with created and
\* updated, and with a body whose first line is indented
StartNotes ==
    {<<"text">>,
     Fm(<< <<"created:", SP, "d0">>, <<"updated:", SP, "d0">> >>, <<"text">>),
     Fm(<< <<"created:", SP, "d0">> >>, <<SP, "text">>)}

\* The contents edit_note is called with: with no front matter, with an
\* updated: line, with a created: line only (the date of the note, another
\* date, a placeholder), and with neither
EditContents ==
    {<<"text2">>,
     Fm(<< <<"created:", SP, "d0">>, <<"updated:", SP, "d0">> >>, <<"text2">>),
     Fm(<< <<"created:", SP, "d0">> >>, <<"text2">>),
     Fm(<< <<"created:", SP, "d1">> >>, <<"text2">>),
     Fm(<< <<"created:", SP, "{{date}}">> >>, <<"text2">>),
     Fm(<< <<"title:", SP, "t">> >>, <<"text2">>)}

\* The updates of update_frontmatter_logic (None: not JSON), and the tags of
\* manage_tags_logic
FrontmatterUpdates == {None, << <<"status:", "scalar", "done">> >>}
TagInputs == {<<"a">>}
TagOperations == {"add", "remove", "list"}

EditInit ==
    /\ vault_path = VaultRoot
    /\ files \in {(<<ROOT, sVault, <<"note", Md>>>> :> c) : c \in StartNotes}
    /\ dirs = {<<ROOT>>, VaultRoot}
    /\ links = EmptyMap
    /\ forbidden_file = "absent"
    /\ forbidden_patterns = None
    /\ note_cache = EmptyMap
    /\ last = [op |-> "init", arg |-> <<>>, res |-> "ok", touched |-> {},
                write |-> <<>>, mutated |-> FALSE]

EditText ==
    \E nuevo \in EditContents, wr \in WriteOutcomes :
        \E f \in find_note_by_name(<<"note">>) :
            Apply("edit", <<"note">>, edit_note(f.path, nuevo, wr), f.cache)

UpdateFrontmatter ==
    \E updates \in FrontmatterUpdates, merge \in BOOLEAN, wr \in WriteOutcomes :
        \E f \in find_note_by_name(<<"note">>) :
            Apply("frontmatter", <<"note">>,
                  update_frontmatter_logic(f.path, updates, merge, wr), f.cache)

ManageTags ==
    \E operation \in TagOperations, input_tags \in TagInputs, wr \in WriteOutcomes :
        \E f \in find_note_by_name(<<"note">>) :
            Apply("tags", <<"note">>,
                  manage_tags_logic(f.path, operation, input_tags, wr), f.cache)

\* ------------------------------------------------------ the note cache ----

\* The names looked up directly, and the names read back after a write
CacheNames == {<<"note">>, <<"key">>, <<"secret">>, <<"pub">>}
ReadBackNames == {<<"secret">>, <<"pub">>}

\* A direct call of find_note_by_name, as the tests make it.  last records the
\* name, the path returned, whether that path existed when it was returned,
\* and whether the cache held an entry for the name whose path was gone.
FindNote ==
    \E name \in CacheNames :
        \E f \in find_note_by_name(name) :
            /\ note_cache' = f.cache
            /\ last' = [op |-> "find", arg |-> name, res |-> f.path,
                        existed |-> (f.path # None /\ Exists(f.path)),
                        stale |-> (/\ CacheKey(name) \in DOMAIN note_cache
                                   /\ note_cache[CacheKey(name)] # None
                                   /\ ~Exists(note_cache[CacheKey(name)]))]
            /\ UNCHANGED <<vault_path, files, dirs, links, forbidden_file,
                           forbidden_patterns>>

\* read_note called by the caller of the call before it.  last records the
\* name, the result, the content returned, and what it keeps of the call
\* before: a successful create_note or move_note, its argument and its write.
ReadBack ==
    \E name \in ReadBackNames :
        \E f \in find_note_by_name(name) :
            LET out == read_note(f.path)
            IN  /\ note_cache' = f.cache
                /\ forbidden_patterns' = IF out.loaded THEN Patterns ELSE forbidden_patterns
                /\ last' = [op |-> "readback", arg |-> name, res |-> out.res,
                            content |-> IF out.res = "ok"
                                        THEN files[Resolve(f.path, links)] ELSE <<>>,
                            prev |-> IF last.op \in {"create", "move"} /\ last.res = "ok"
                                     THEN [op |-> last.op, arg |-> last.arg,
                                           write |-> last.write]
                                     ELSE [op |-> "other", arg |-> <<>>, write |-> <<>>]]
                /\ UNCHANGED <<vault_path, files, dirs, links, forbidden_file>>

\* ------------------------------------------------- concurrent appends ----

\* The tasks that call append_to_note, what each appends, and how many calls
\* each makes
Tasks == {1, 2}
MaxAppends == 1
TaskBody(t) == IF t = 1 THEN <<"a">> ELSE <<"b">>
AppendNames == {<<"note">>, <<"t">>}

TasksInit ==
    tasks = [t \in Tasks |-> [pc |-> "idle", n |-> 0, res |-> "none", path |-> None,
                              contenido_actual |-> <<>>, al_final |-> TRUE]]

\* append_to_note (creation_logic.py 240-244): the new content
Appended(contenido_actual, contenido, al_final) ==
    IF al_final
    THEN LET sep == IF contenido_actual # <<>>
                       /\ contenido_actual[Len(contenido_actual)] = "nn"
                    THEN <<>> ELSE <<"nn">>
         IN  contenido_actual \o sep \o contenido
    ELSE contenido \o <<"nn">> \o contenido_actual

Returned(t, res) == [tasks EXCEPT ![t].pc = "idle", ![t].n = @ + 1, ![t].res = res]

\* append_to_note up to the end of its read (creation_logic.py 225-238): the
\* lookup, the path policy, and the read of the current content.  No lock is
\* taken: the code has none.
AppendRead(t) ==
    /\ tasks[t].pc = "idle"
    /\ tasks[t].n < MaxAppends
    /\ \E name \in AppendNames, al_final \in BOOLEAN :
        IF vault_path = None
        THEN /\ tasks' = Returned(t, "config_error")
             /\ UNCHANGED <<note_cache, forbidden_patterns>>
        ELSE \E f \in find_note_by_name(name) :
                /\ note_cache' = f.cache
                /\ forbidden_patterns' =
                      IF f.path # None /\ LoadsPatterns(f.path)
                      THEN Patterns ELSE forbidden_patterns
                /\ IF Denied(f.path) # "pass"
                   THEN tasks' = Returned(t, Denied(f.path))
                   ELSE tasks' = [tasks EXCEPT ![t] =
                            [pc |-> "write", n |-> @.n, res |-> "none",
                             path |-> Resolve(f.path, links),
                             contenido_actual |-> files[Resolve(f.path, links)],
                             al_final |-> al_final]]
    /\ UNCHANGED <<vault_path, files, dirs, links, forbidden_file, last>>

\* append_to_note from there (creation_logic.py 240-251): the new content is
\* built from what was read and written over the file.
AppendWrite(t) ==
    /\ tasks[t].pc = "write"
    /\ files' = WriteFile(files, tasks[t].path,
                          Appended(tasks[t].contenido_actual, TaskBody(t),
                                   tasks[t].al_final), "ok")
    /\ tasks' = Returned(t, "ok")
    /\ UNCHANGED <<vault_path, dirs, links, forbidden_file, forbidden_patterns,
                   note_cache, last>>


\* ------------------------------------------------- concurrent creations ----

\* How many calls of create_note each task makes, and the folders and
\* templates they are called with
MaxCreates == 1
CreateFolders == {<<>>, <<"Private">>}
CreatePlantillas == {<<>>, <<"t">>}

\* create_note up to its test of nota_path.exists() (creation_logic.py
\* 499-534): the folder is made, the path policy is asked, and the call
\* returns when the note is there.  Nothing is locked or reserved: the file is
\* opened only at the end of the call.
CreateCheck(t) ==
    /\ tasks[t].pc = "idle"
    /\ tasks[t].n < MaxCreates
    /\ \E titulo \in Titles, carpeta \in CreateFolders, plantilla \in CreatePlantillas :
        LET out == create_note(titulo, TaskBody(t), carpeta, plantilla, "ok")
        IN  /\ dirs' = out.dirs
            /\ forbidden_patterns' = IF out.loaded THEN Patterns ELSE forbidden_patterns
            /\ tasks' = IF out.res # "ok"
                        THEN Returned(t, out.res)
                        ELSE [tasks EXCEPT ![t] =
                                 [pc |-> "write", n |-> @.n, res |-> "none",
                                  path |-> out.write[1].path,
                                  contenido_actual |-> <<>>,
                                  contenido_final |-> out.write[1].intended,
                                  al_final |-> TRUE]]
    /\ UNCHANGED <<vault_path, files, links, forbidden_file, note_cache, last>>

\* create_note from there (creation_logic.py 536-651): the content built for
\* the note is written with open(nota_path, "w"), over whatever is there.
CreateWrite(t) ==
    /\ tasks[t].pc = "write"
    /\ files' = WriteFile(files, tasks[t].path, tasks[t].contenido_final, "ok")
    /\ tasks' = Returned(t, "ok")
    /\ UNCHANGED <<vault_path, dirs, links, forbidden_file, forbidden_patterns,
                   note_cache, last>>

\* ------------------------------------------------------------ indexer ----

\* file names load_all_obsidian_documents skips: those that contain
\* ".excalidraw.md", ".canvas" or "untitled"
ExcludedName(seg) ==
    \E i \in 1..Len(seg) :
        \/ seg[i] \in {"untitled", ".canvas"}
        \/ (seg[i] = ".excalidraw" /\ i < Len(seg) /\ seg[i + 1] = Md)

\* content.strip() is empty
Blank(content) == \A i \in 1..Len(content) : content[i] \in {"nn", "n", " "}

\* os.walk(obsidian_path) with file.endswith(".md"): what lies lexically under
\* the vault; a link to a file is listed as a file, and open() follows it.
WalkMd == IF vault_path = None THEN {} ELSE RGlobMd(vault_path)

ReadAt(p) == files[Resolve(p, links)]
Readable(p) == Resolve(p, links) \in DOMAIN files

\* What can fail while load_or_create_db runs: "load", every open() of a note
\* raises (the loaders log it and skip the file); "create", the Chroma client
\* cannot be made at db_path; "embed" and "add", the embedding backend or the
\* write of the chunks raises inside from_documents or add_documents.
IndexErrors == {"none", "load", "create", "embed", "add"}

\* load_all_obsidian_documents: the sources of the documents it returns (the
\* content of a document is the content of its file).  A file whose read
\* raises is logged and skipped.
load_all_obsidian_documents(err) ==
    IF err = "load" THEN {}
    ELSE {p \in WalkMd : ~ExcludedName(PathName(p)) /\ Readable(p) /\ ~Blank(ReadAt(p))}

\* load_documents_from_paths: every path that can be read gives a document; a
\* path whose read raises is logged and skipped.
load_documents_from_paths(filepaths, err) ==
    IF err = "load" THEN {} ELSE {p \in filepaths : Readable(p)}

\* A content holds BREAK where chunk_size characters have passed since its
\* start or since the break before: where the splitter cuts.
BREAK == "<chunk_size>"

RECURSIVE SplitChunks(_, _)
\* RecursiveCharacterTextSplitter.split_text: the pieces between the breaks
SplitChunks(content, acc) ==
    IF content = <<>> THEN <<acc>>
    ELSE IF Head(content) = BREAK THEN <<acc>> \o SplitChunks(Tail(content), <<>>)
    ELSE SplitChunks(Tail(content), Append(acc, Head(content)))

\* splitter.split_documents on one document: a content below chunk_size is
\* one chunk, a longer one is cut at its breaks, and a blank one gives none.
Chunks(p) == IF Blank(ReadAt(p)) THEN <<>> ELSE SplitChunks(ReadAt(p), <<>>)

\* The vector store: whether db_path exists, and the chunks of each source
NoStore == [exists |-> FALSE, chunks |-> EmptyMap]

\* Chroma.from_documents(texts, persist_directory=db_path)
FromDocuments(docs) == [exists |-> TRUE, chunks |-> [p \in docs |-> Chunks(p)]]

\* db.delete(where={"source": f}) for every f of sources
DeleteSources(st, sources) ==
    [st EXCEPT !.chunks = [p \in (DOMAIN st.chunks) \ sources |-> st.chunks[p]]]

\* db.add_documents(texts): the chunks of docs are added to what is there
AddDocuments(st, docs) ==
    LET with == {p \in docs : Chunks(p) # <<>>}
    IN  [st EXCEPT !.chunks = [p \in (DOMAIN st.chunks) \cup with |->
            (IF p \in DOMAIN st.chunks THEN st.chunks[p] ELSE <<>>)
            \o (IF p \in with THEN Chunks(p) ELSE <<>>)]]

\* The tracker (semantic/metadata_tracker.py is not among the sources; this is
\* spec.md 4.D).  Its walk honours the exclusions of 4.E: the excluded names
\* and the excluded folders, the templates folder among them.
ExcludedFolders == {<<".git">>, <<".obsidian">>, <<".trash">>, <<".obsidianrag">>,
                    sTemplates}
TrackerWalk ==
    {p \in WalkMd : /\ ~ExcludedName(PathName(p))
                    /\ \A i \in 1..(Len(p) - 1) : p[i] \notin ExcludedFolders}

\* (mtime, size, fingerprint) of a file
Signature(p) == [mtime |-> mtime.at[Resolve(p, links)], content |-> ReadAt(p)]

NoTracker == [exists |-> FALSE, entries |-> EmptyMap]
should_rebuild(tr) == ~tr.exists
detect_changes(tr) ==
    [new |-> TrackerWalk \ DOMAIN tr.entries,
     modified |-> {p \in TrackerWalk \cap DOMAIN tr.entries : tr.entries[p] # Signature(p)},
     deleted |-> (DOMAIN tr.entries) \ TrackerWalk]
update_metadata == [exists |-> TRUE, entries |-> [p \in TrackerWalk |-> Signature(p)]]

\* stats with docs_new and docs_modified taken from each other's set
StatsSwapped(processed, new, modified, deleted, incremental) ==
    [docs_processed |-> processed, docs_new |-> modified, docs_modified |-> new,
     docs_deleted |-> deleted, is_incremental |-> incremental]

Stats(processed, new, modified, deleted, incremental) ==
    [docs_processed |-> processed, docs_new |-> new, docs_modified |-> modified,
     docs_deleted |-> deleted, is_incremental |-> incremental]

\* What load_or_create_db gives: the db it returns (FALSE for None) and its
\* stats, or raised when an exception leaves it; the store and the tracker it
\* leaves on disk; full, whether it took the full rebuild.
Built(db, raised, full, st, tr, stats) ==
    [db |-> db, raised |-> raised, full |-> full, store |-> st, tracker |-> tr,
     stats |-> stats]

\* The full rebuild of load_or_create_db (indexer.py 238-259), on store st.
\* shutil.rmtree(db_path) comes before Chroma.from_documents: when that call
\* raises, the old store is gone, and db_path is absent ("create") or holds a
\* collection without chunks.
FullRebuild(st, tr, err) ==
    LET documents == load_all_obsidian_documents(err)
    IN  IF documents = {}
        THEN Built(FALSE, FALSE, TRUE, st, tr, Stats(0, 0, 0, 0, FALSE))
        ELSE IF err = "create"
        THEN Built(FALSE, TRUE, TRUE, NoStore, tr, Stats(0, 0, 0, 0, FALSE))
        ELSE IF err \in {"embed", "add"}
        THEN Built(FALSE, TRUE, TRUE, [exists |-> TRUE, chunks |-> EmptyMap], tr,
                   Stats(0, 0, 0, 0, FALSE))
        ELSE Built(TRUE, FALSE, TRUE, FromDocuments(documents), update_metadata,
                   Stats(Cardinality(documents), 0, 0, 0, FALSE))

\* The incremental update of load_or_create_db (indexer.py 211-236).  The
\* chunks of the deleted and modified files are deleted first; add_documents
\* is called only when some document was loaded.
IncrementalUpdate(st, tr, err) ==
    LET ch == detect_changes(tr)
        docs == load_documents_from_paths(ch.new \cup ch.modified, err)
        deleted == DeleteSources(st, ch.deleted \cup ch.modified)
        stats == Stats(Cardinality(ch.new) + Cardinality(ch.modified),
                       Cardinality(ch.new), Cardinality(ch.modified),
                       Cardinality(ch.deleted), TRUE)
    IN  IF err = "create"
        THEN Built(FALSE, TRUE, FALSE, st, tr, Stats(0, 0, 0, 0, FALSE))
        ELSE IF ch.new = {} /\ ch.modified = {} /\ ch.deleted = {}
        THEN Built(TRUE, FALSE, FALSE, st, tr, Stats(0, 0, 0, 0, FALSE))
        ELSE IF docs # {} /\ err \in {"embed", "add"}
        THEN Built(FALSE, TRUE, FALSE, deleted, tr, stats)
        ELSE Built(TRUE, FALSE, FALSE, AddDocuments(deleted, docs), update_metadata, stats)

\* load_or_create_db (indexer.py 174-259): what it returns and what it leaves
\* at db_path and in the tracker's file, from the store st and the tracker tr
load_or_create_db(st, tr, force_rebuild, err) ==
    IF st.exists /\ ~force_rebuild /\ ~should_rebuild(tr)
    THEN IncrementalUpdate(st, tr, err)
    ELSE FullRebuild(st, tr, err)


\* --------------------------------------------------- index_vault, run by run ----

\* The files the editor (or any other program) changes under the vault while
\* the server runs, what it writes, and how far the clock of the model goes
IdxPaths == {<<ROOT, sVault, <<"note", Md>>>>, <<ROOT, sVault, sPrivate, <<"key", Md>>>>,
             <<ROOT, sVault, sTemplates, <<"t", Md>>>>}
IdxContents == {<<"v2">>}
MaxClock == 1

\* The calls of index_vault that may be in progress, and how many each makes
Callers == {1, 2}
MaxIndexCalls == 1

\* self._retriever: None, or a retriever whose BM25 index was built from the
\* documents db.get() returned then (retriever.py 31-47)
NoRetriever == [built |-> FALSE, docs |-> EmptyMap]

IdxInit ==
    /\ mtime = [now |-> 0, at |-> [p \in DOMAIN files |-> 0]]
    /\ store = NoStore
    /\ tracker = NoTracker
    /\ service = [db |-> FALSE, stats |-> Stats(0, 0, 0, 0, FALSE), success |-> FALSE,
                   raised |-> FALSE, retriever |-> NoRetriever]
    /\ callers = [c \in Callers |-> [pc |-> "idle", n |-> 0, overlapped |-> FALSE]]
    /\ snap = <<>>

\* A file of the vault is written by another program: st_mtime moves on
WriteVaultFile ==
    \E p \in IdxPaths, content \in IdxContents :
        /\ mtime.now < MaxClock
        /\ files' = [q \in (DOMAIN files) \cup {p} |-> IF q = p THEN content ELSE files[q]]
        /\ mtime' = [now |-> mtime.now + 1,
                     at |-> [q \in (DOMAIN files) \cup {p} |->
                                IF q = p THEN mtime.now + 1 ELSE mtime.at[q]]]
        /\ snap' = <<>>
        /\ UNCHANGED <<vault_path, dirs, links, forbidden_file, forbidden_patterns,
                       note_cache, last, tasks, store, tracker, service, callers>>

\* A file of the vault is removed by another program
DeleteVaultFile ==
    \E p \in IdxPaths \cap DOMAIN files :
        /\ files' = [q \in (DOMAIN files) \ {p} |-> files[q]]
        /\ mtime' = [mtime EXCEPT !.at = [q \in (DOMAIN files) \ {p} |-> mtime.at[q]]]
        /\ snap' = <<>>
        /\ UNCHANGED <<vault_path, dirs, links, forbidden_file, forbidden_patterns,
                       note_cache, last, tasks, store, tracker, service, callers>>

\* SemanticService.index_vault (service.py 217-237): what a run leaves.  It
\* catches nothing: when load_or_create_db raises, so does index_vault, and
\* _db and _retriever keep their values; otherwise _retriever is reset.  last
\* records the call, with the store and the tracker it found.
IndexRun(force, err) ==
    LET out == load_or_create_db(store, tracker, force, err)
    IN  /\ store' = out.store
        /\ tracker' = out.tracker
        /\ service' = IF out.raised
                      THEN [db |-> service.db, stats |-> Stats(0, 0, 0, 0, FALSE),
                            success |-> FALSE, raised |-> TRUE,
                            retriever |-> service.retriever]
                      ELSE [db |-> out.db, stats |-> out.stats, success |-> out.db,
                            raised |-> FALSE, retriever |-> NoRetriever]
        /\ snap' = IF out.raised THEN <<>>
                   ELSE IF force
                   THEN << [store |-> out.store, tracker |-> out.tracker] >>
                   ELSE snap
        /\ last' = [op |-> "index", force |-> force, err |-> err, full |-> out.full,
                    store |-> store, tracker |-> tracker]

\* index_vault called and run to its end, one call at a time, nothing failing
IndexVault ==
    \E force \in BOOLEAN :
        /\ IndexRun(force, "none")
        /\ UNCHANGED <<vault_path, files, dirs, links, forbidden_file, forbidden_patterns,
                       note_cache, tasks, mtime, callers>>

\* index_vault called and run to its end, with whatever may fail on the way
IndexVaultFailing ==
    \E force \in BOOLEAN, err \in IndexErrors :
        /\ IndexRun(force, err)
        /\ UNCHANGED <<vault_path, files, dirs, links, forbidden_file, forbidden_patterns,
                       note_cache, tasks, mtime, callers>>

\* A request for indexar_vault_semantico arrives (tools/semantic.py 97-109).
\* overlapped: another caller's run was in progress at that moment.
IndexCall(c) ==
    /\ callers[c].pc = "idle"
    /\ callers[c].n < MaxIndexCalls
    /\ callers' = [callers EXCEPT ![c] =
                      [pc |-> "called", n |-> @.n,
                       overlapped |-> \E d \in Callers \ {c} : callers[d].pc = "running"]]
    /\ UNCHANGED <<vault_path, files, dirs, links, forbidden_file, forbidden_patterns,
                   note_cache, last, tasks, mtime, store, tracker, service, snap>>

\* The handler of a request starts.  It is an async function that never
\* awaits, so the event loop starts it only when no other handler runs; it
\* looks for no run in progress and for no earlier result: it calls
\* service.index_vault.
IndexBegin(c) ==
    /\ callers[c].pc = "called"
    /\ \A d \in Callers : callers[d].pc # "running"
    /\ callers' = [callers EXCEPT ![c].pc = "running"]
    /\ UNCHANGED <<vault_path, files, dirs, links, forbidden_file, forbidden_patterns,
                   note_cache, last, tasks, mtime, store, tracker, service, snap>>

\* The handler's run of index_vault ends
IndexEnd(c) ==
    /\ callers[c].pc = "running"
    /\ \E force \in BOOLEAN : IndexRun(force, "none")
    /\ callers' = [callers EXCEPT ![c].pc = "idle", ![c].n = @ + 1]
    /\ UNCHANGED <<vault_path, files, dirs, links, forbidden_file, forbidden_patterns,
                   note_cache, tasks, mtime>>

\* ------------------------------------------------- suggest_connections ----

RECURSIVE FindLinks(_)
\* re.findall(r"\[\[(.*?)\]\]", content): from the first [[, the shortest text
\* up to a ]] on the same line; the search goes on after that ]]
FindLinks(s) ==
    LET opens == {i \in 1..Len(s) : s[i] = "[["}
        i == FirstOf(opens)
        rest == SubSeq(s, i + 1, Len(s))
        closes == {j \in 1..Len(rest) :
                     rest[j] = "]]" /\ \A k \in 1..(j - 1) : rest[k] # NL}
    IN  IF opens = {} THEN <<>>
        ELSE IF closes = {} THEN FindLinks(rest)
        ELSE <<SubSeq(rest, 1, FirstOf(closes) - 1)>>
                 \o FindLinks(SubSeq(rest, FirstOf(closes) + 1, Len(rest)))

RECURSIVE RStripWs(_)
\* str.rstrip()
RStripWs(s) ==
    IF s # <<>> /\ s[Len(s)] \in {SP, NL} THEN RStripWs(SubSeq(s, 1, Len(s) - 1)) ELSE s

RECURSIVE Unique(_, _)
\* the loop of lines 28-33: the non-empty links, each once, in order
Unique(ls, seen) ==
    IF ls = <<>> THEN <<>>
    ELSE IF Head(ls) # <<>> /\ Head(ls) \notin seen
    THEN <<Head(ls)>> \o Unique(Tail(ls), seen \cup {Head(ls)})
    ELSE Unique(Tail(ls), seen)

\* extract_obsidian_links (indexer.py 22-34)
extract_obsidian_links(content) ==
    LET links_found == FindLinks(content)
        \* link.split("|")[0].strip()
        CleanLink(link) ==
            LET bars == {i \in 1..Len(link) : link[i] = "|"}
            IN  RStripWs(LStripWs(IF bars = {} THEN link
                                  ELSE SubSeq(link, 1, FirstOf(bars) - 1)))
    IN  Unique([i \in 1..Len(links_found) |-> CleanLink(links_found[i])], {})

RECURSIVE JoinComma(_)
\* ",".join(links)
JoinComma(ls) ==
    IF ls = <<>> THEN <<>>
    ELSE IF Len(ls) = 1 THEN ls[1]
    ELSE ls[1] \o <<",">> \o JoinComma(Tail(ls))

RECURSIVE SplitComma(_)
\* str.split(",")
SplitComma(s) ==
    LET commas == {i \in 1..Len(s) : s[i] = ","}
    IN  IF commas = {} THEN <<s>>
        ELSE <<SubSeq(s, 1, FirstOf(commas) - 1)>>
                 \o SplitComma(SubSeq(s, FirstOf(commas) + 1, Len(s)))


\* len(content.split()): the runs of symbols that are not white space
WordCount(content) ==
    Cardinality({i \in 1..Len(content) :
        /\ content[i] \notin {SP, NL}
        /\ (i = 1 \/ content[i - 1] \in {SP, NL})})

\* CARPETAS_EXCLUIDAS and PATRONES_EXCLUIDOS (service.py 30-51), as far as the
\* names of this model go: no name holds Panel, .agent or copilot-instructions
CARPETAS_EXCLUIDAS == {<<"00_Sistema">>, <<"ZZ_Plantillas">>, <<".agent">>, <<".trash">>,
                       <<".git">>, <<".obsidian">>, <<".obsidianrag">>}
PATRONES_EXCLUIDOS == {"MOC", "Home", "Inbox"}

\* _should_exclude (service.py 239-265)
_should_exclude(filepath, carpetas_incluir, excluir_mocs) ==
    LET rel_path == PathStr(SubSeq(filepath, Len(vault_path) + 1, Len(filepath)))
        filename == PathName(filepath)
    IN  \/ /\ carpetas_incluir # {}
           /\ ~\E folder \in carpetas_incluir : StartsWith(rel_path, folder)
        \/ /\ carpetas_incluir = {}
           /\ \E folder \in CARPETAS_EXCLUIDAS : StartsWith(rel_path, folder)
        \/ /\ excluir_mocs
           /\ \E i \in 1..(Len(filename) - 1) :
                  filename[i] \in PATRONES_EXCLUIDOS /\ filename[i + 1] = Md

\* The embeddings of the model: none, or one of two directions of the plane,
\* (1, 0) and (1, 1); Cosine is the dot product of two normalized embeddings,
\* in hundredths
Embeddings == {"none", "x", "xy"}
Cosine(u, v) == IF u = v THEN 100 ELSE 71


InSeq(x, s) == \E i \in 1..Len(s) : s[i] = x

\* The sentinel returned when the time limit is exceeded (service.py 440-453)
TimeoutSentinel ==
    [note_a |-> <<"Error">>, note_b |-> <<"Timeout">>, similarity |-> 0,
     folder_a |-> <<>>, folder_b |-> <<>>, words_a |-> 0, words_b |-> 0,
     reason |-> "Timeout. Reduce el umbral o filtra carpetas."]

RECURSIVE TriuIndices(_, _, _)
\* np.triu_indices(n, k=1): the pairs (r, c) with r < c, row by row
TriuIndices(r, c, n) ==
    IF r >= n THEN <<>>
    ELSE IF c > n THEN TriuIndices(r + 1, r + 2, n)
    ELSE << <<r, c>> >> \o TriuIndices(r, c + 1, n)

RECURSIVE SortBySimilarity(_)
\* suggestions.sort(key=similarity, reverse=True): stable
SortBySimilarity(s) ==
    IF s = <<>> THEN <<>>
    ELSE LET i == CHOOSE k \in 1..Len(s) :
                    /\ \A j \in 1..Len(s) : s[j].similarity <= s[k].similarity
                    /\ \A j \in 1..(k - 1) : s[j].similarity < s[k].similarity
         IN  <<s[i]>> \o SortBySimilarity(SubSeq(s, 1, i - 1) \o SubSeq(s, i + 1, Len(s)))

\* The block under time_limit of suggest_connections (service.py 305-436) on
\* db_data, the sequence of [source, document, links, embedding] that db.get
\* returns
Analyze(db_data, threshold, limit, carpetas_incluir, excluir_mocs, min_palabras) ==
    LET \* title.replace(".md", "")
        CleanTitle(title) == SelectSeq(title, LAMBDA ch : ch # Md)
        valid_indices ==
            SelectSeq([i \in 1..Len(db_data) |-> i],
                LAMBDA i : /\ WordCount(db_data[i].document) >= min_palabras
                           /\ ~_should_exclude(db_data[i].source, carpetas_incluir, excluir_mocs)
                           /\ db_data[i].embedding # "none")
        n_docs == Len(valid_indices)
        score(p) == Cosine(db_data[valid_indices[p[1]]].embedding,
                           db_data[valid_indices[p[2]]].embedding)
        kept(p) ==
            LET a == db_data[valid_indices[p[1]]]
                b == db_data[valid_indices[p[2]]]
            IN  /\ score(p) >= threshold
                /\ a.source # b.source
                /\ ~InSeq(CleanTitle(PathName(b.source)), SplitComma(a.links))
                /\ ~InSeq(CleanTitle(PathName(a.source)), SplitComma(b.links))
        candidates == SelectSeq(TriuIndices(1, 2, n_docs), kept)
        suggestions ==
            [k \in 1..Len(candidates) |->
                LET a == db_data[valid_indices[candidates[k][1]]]
                    b == db_data[valid_indices[candidates[k][2]]]
                IN  [note_a |-> PathName(a.source), note_b |-> PathName(b.source),
                     similarity |-> score(candidates[k]),
                     folder_a |-> Parent(a.source), folder_b |-> Parent(b.source),
                     words_a |-> WordCount(a.document), words_b |-> WordCount(b.document),
                     \* f"Similitud {score:.2f}"
                     reason |-> IF score(candidates[k]) = 100 THEN "Similitud 1.00"
                                ELSE "Similitud 0.71"]]
        sorted == SortBySimilarity(suggestions)
    IN  IF \A i \in 1..Len(db_data) : db_data[i].embedding = "none" THEN <<>>
        ELSE IF n_docs < 2 THEN <<>>
        ELSE SubSeq(sorted, 1, IF limit < Len(sorted) THEN limit ELSE Len(sorted))


\* suggest_connections without its except TimeLimitExceeded: the exception is
\* caught by the outer except, and the call returns []
suggest_connections_uncaught(db_data, ending, threshold, limit, carpetas_incluir, excluir_mocs, min_palabras) ==
    IF ending = "done"
    THEN Analyze(db_data, threshold, limit, carpetas_incluir, excluir_mocs, min_palabras)
    ELSE <<>>

\* suggest_connections (service.py 276-457) once _ensure_db has returned a
\* database
suggest_connections(db_data, ending, threshold, limit, carpetas_incluir, excluir_mocs, min_palabras) ==
    IF ending = "timeout" THEN <<TimeoutSentinel>>
    ELSE IF ending = "error" THEN <<>>
    ELSE Analyze(db_data, threshold, limit, carpetas_incluir, excluir_mocs, min_palabras)

\* --------------------------------------- the semantic tools, call by call ----

\* The vault of the semantic tools: n links to "a,b", and MOC, a map of
\* content in a folder, links to n under an alias
sSub == <<"sub">>
ConnFiles ==
    (<<ROOT, sVault, <<"n", Md>>>> :> <<"[[", "a", ",", "b", "]]", SP, "w1", SP, "w2">>)
    @@ (<<ROOT, sVault, <<"a", ",", "b", Md>>>> :> <<"w1", SP, "w2", SP, "w3">>)
    @@ (<<ROOT, sVault, sSub, <<"MOC", Md>>>> :> <<"[[", "n", "|", "alias", "]]", SP, "w1">>)

ConnInit ==
    /\ vault_path = VaultRoot
    /\ files = ConnFiles
    /\ dirs = {<<ROOT>>, VaultRoot, Append(VaultRoot, sSub)}
    /\ links = EmptyMap
    /\ forbidden_file = "absent"
    /\ forbidden_patterns = None
    /\ note_cache = EmptyMap
    /\ last = [op |-> "init", arg |-> <<>>, res |-> "ok", touched |-> {},
                write |-> <<>>, mutated |-> FALSE]

\* What the tools are called with
Thresholds == {90}
Limits == {1, 10}
MinPalabras == {0, 3}
\* What may fail in _ensure_db: nothing once the database is loaded
EnsureErrors == IF service.db THEN {"none"} ELSE {"none", "create"}

\* _ensure_db (service.py 70-79): with no database loaded, load_or_create_db
\* is called without force_rebuild
_ensure_db(err) ==
    IF service.db
    THEN Built(TRUE, FALSE, FALSE, store, tracker, Stats(0, 0, 0, 0, FALSE))
    ELSE load_or_create_db(store, tracker, FALSE, err)

\* _ensure_retriever (service.py 81-85) after _ensure_db left e: a retriever
\* is made from the database when there is none
create_retriever_with_reranker(e, reset) ==
    IF ~e.raised /\ e.db /\ ~reset.built
    THEN [built |-> TRUE, docs |-> e.store.chunks]
    ELSE reset

\* What _ensure_db leaves, and _ensure_retriever after it when retrieve: the
\* store, the tracker, _db and _retriever (both kept when load_or_create_db
\* raises; _retriever is reset when load_or_create_db was called and returned)
Ensured(e, retrieve) ==
    /\ store' = e.store
    /\ tracker' = e.tracker
    /\ service' =
           LET reset == IF service.db \/ e.raised THEN service.retriever ELSE NoRetriever
           IN  [service EXCEPT !.db = IF e.raised THEN service.db ELSE e.db,
                               !.retriever = IF retrieve
                                             THEN create_retriever_with_reranker(e, reset)
                                             ELSE reset]
    /\ UNCHANGED <<vault_path, files, dirs, links, forbidden_file, forbidden_patterns,
                   note_cache, tasks, mtime, callers, snap>>

\* The orders in which db.get may list the chunks of S
Orders(S) ==
    {f \in [1..Cardinality(S) -> S] : \A i, j \in 1..Cardinality(S) : f[i] = f[j] => i = j}

\* The rows of the collection: one for each chunk of each source
Rows(st) == UNION {{<<p, k>> : k \in 1..Len(st.chunks[p])} : p \in DOMAIN st.chunks}

RECURSIVE Concat(_)
\* The content the chunks of a source were cut from
Concat(chunks) == IF chunks = <<>> THEN <<>> ELSE Head(chunks) \o Concat(Tail(chunks))

\* db.get(include=["metadatas", "documents", "embeddings"]) on the store st:
\* its rows listed in order, with the embeddings emb.  The metadata of a chunk
\* are those of its document (indexer.py 156-160): its source and its links;
\* no content of this part of the model has front matter, so no key of the
\* front matter replaces them.
DbGet(st, order, emb) ==
    [i \in 1..Len(order) |->
        [source |-> order[i][1], document |-> st.chunks[order[i][1]][order[i][2]],
         links |-> JoinComma(extract_obsidian_links(Concat(st.chunks[order[i][1]]))),
         embedding |-> emb[order[i]]]]

\* What suggest_connections may return on the database that _ensure_db left
\* (e), with whether the time limit was exceeded.  A call ends "done", or
\* "timeout" (the alarm of time_limit goes off inside the block), or "error"
\* (anything else is raised: numpy is missing, signal.signal is refused outside
\* the main thread, db.get fails).
Returns(e) ==
    LET rows == Rows(e.store)
        ended(ending) ==
            [res |-> suggest_connections(<<>>, ending, 0, 0, {}, TRUE, 0),
             timed_out |-> (ending = "timeout")]
    IN  IF e.raised \/ ~e.db THEN {[res |-> <<>>, timed_out |-> FALSE]}
        ELSE {ended(ending) : ending \in {"timeout", "error"}}
             \cup {[res |-> suggest_connections(DbGet(e.store, order, emb), "done",
                                threshold, limit, {}, excluir_mocs, min_palabras),
                     timed_out |-> FALSE] :
                       threshold \in Thresholds, limit \in Limits,
                       excluir_mocs \in BOOLEAN, min_palabras \in MinPalabras,
                       order \in Orders(rows), emb \in [rows -> Embeddings]}

\* SemanticService.suggest_connections, _ensure_db included.  last records the
\* call: what it returned, whether the time limit was exceeded, and the store
\* and the tracker before it.
SuggestConnections ==
    \E err \in EnsureErrors :
        /\ Ensured(_ensure_db(err), FALSE)
        /\ \E r \in Returns(_ensure_db(err)) :
               last' = [op |-> "suggest_connections", res |-> r.res,
                        timed_out |-> r.timed_out, store |-> store, tracker |-> tracker]

\* The sources a retriever may return on the database e: those of the
\* store (the vector search) and those its BM25 index was built from
Retrievable(e) ==
    {p \in DOMAIN e.store.chunks : e.store.chunks[p] # <<>>}
    \cup {p \in DOMAIN service.retriever.docs : service.retriever.docs[p] # <<>>}

\* SemanticService.query (service.py 87-135): the sources of the documents the
\* retriever returns.  Nothing is caught: raised says that the call raised.
Query ==
    \E err \in EnsureErrors :
        LET e == _ensure_db(err)
        IN  /\ Ensured(e, TRUE)
            /\ \E docs \in SUBSET Retrievable(e) :
                   last' = [op |-> "query",
                            res |-> IF e.raised \/ ~e.db THEN {} ELSE docs,
                            raised |-> e.raised,
                            store |-> store, tracker |-> tracker]

\* SemanticService.suggest_folder (service.py 137-215): docs are the first
\* limit documents the retriever returns; the folders they lie in are listed by
\* votes.  Every exception is caught and [] returned.
SuggestFolder ==
    \E err \in EnsureErrors, limit \in Limits :
        LET e == _ensure_db(err)
            all == Retrievable(e)
        IN  /\ Ensured(e, TRUE)
            /\ \E docs \in {d \in SUBSET all : Cardinality(d) <= limit} :
                   LET folders == {Parent(p) : p \in docs}
                       \* round(votes / total_votes, 2), in hundredths
                       Confidence(v, total_votes) ==
                           (v * 200 + total_votes) \div (2 * total_votes)
                       votes(f) == Cardinality({p \in docs : Parent(p) = f})
                   IN  \E sorted_folders \in Orders(folders) :
                           /\ \A i \in 1..(Len(sorted_folders) - 1) :
                                  votes(sorted_folders[i]) >= votes(sorted_folders[i + 1])
                           /\ last' = [op |-> "suggest_folder",
                                       res |-> IF e.raised \/ ~e.db THEN <<>>
                                               ELSE [i \in 1..Len(sorted_folders) |->
                                                       [folder |-> sorted_folders[i],
                                                        votes |-> votes(sorted_folders[i]),
                                                        confidence |-> Confidence(
                                                            votes(sorted_folders[i]),
                                                            Cardinality(docs))]],
                                       store |-> store, tracker |-> tracker]

\* --------------------------------------- index statistics, run after run ----

\* A vault of two notes, a.md and b.md
NoteA == <<ROOT, sVault, <<"a", Md>>>>
NoteB == <<ROOT, sVault, <<"b", Md>>>>
NoteC == <<ROOT, sVault, <<"c", Md>>>>
StatsInit ==
    /\ vault_path = VaultRoot
    /\ files = (NoteA :> <<"2kB">>) @@ (NoteB :> <<"3kB">>)
    /\ dirs = {<<ROOT>>, VaultRoot}
    /\ links = EmptyMap
    /\ forbidden_file = "absent"
    /\ forbidden_patterns = None
    /\ note_cache = EmptyMap
    /\ last = [op |-> "init", arg |-> <<>>, res |-> "ok", touched |-> {},
                write |-> <<>>, mutated |-> FALSE]

\* A note of the vault is touched by another program: st_mtime moves on, the
\* content stays
TouchVaultFile ==
    \E p \in DOMAIN files :
        /\ mtime.now < MaxClock
        /\ mtime' = [now |-> mtime.now + 1, at |-> [mtime.at EXCEPT ![p] = mtime.now + 1]]
        /\ snap' = <<>>
        /\ UNCHANGED <<vault_path, files, dirs, links, forbidden_file, forbidden_patterns,
                       note_cache, last, tasks, store, tracker, service, callers>>

\* A note is added to the vault by another program
AddVaultFile ==
    /\ NoteC \notin DOMAIN files
    /\ files' = [q \in (DOMAIN files) \cup {NoteC} |-> IF q = NoteC THEN <<"1kB">> ELSE files[q]]
    /\ mtime' = [mtime EXCEPT !.at = [q \in (DOMAIN files) \cup {NoteC} |->
                                         IF q = NoteC THEN mtime.now ELSE mtime.at[q]]]
    /\ snap' = <<>>
    /\ UNCHANGED <<vault_path, dirs, links, forbidden_file, forbidden_patterns,
                   note_cache, last, tasks, store, tracker, service, callers>>

\* A note of the vault is removed by another program
RemoveVaultFile ==
    \E p \in DOMAIN files :
        /\ files' = [q \in (DOMAIN files) \ {p} |-> files[q]]
        /\ mtime' = [mtime EXCEPT !.at = [q \in (DOMAIN files) \ {p} |-> mtime.at[q]]]
        /\ snap' = <<>>
        /\ UNCHANGED <<vault_path, dirs, links, forbidden_file, forbidden_patterns,
                       note_cache, last, tasks, store, tracker, service, callers>>

\* ------------------------------------------- is_path_forbidden, call by call ----

\* The patterns a .forbidden_paths file may hold, and the vault-relative
\* paths is_path_forbidden is asked about
GlobPatterns == {<<"*", "*", "/", "Private", "/", "*">>,
                 <<"*", "*", "/", "Private", "/", "*", "*">>,
                 <<"docs", "/", "*", "*", "/", "secret", Md>>,
                 <<"drafts", "/", "*">>}
GlobPaths == {<<sPrivate, <<"key", Md>>>>, <<<<"note", Md>>>>,
              <<<<"other">>, <<"secret", Md>>>>,
              <<<<"docs">>, <<"a">>, <<"secret", Md>>>>,
              <<<<"x">>, sPrivate, <<"y">>, <<"z", Md>>>>,
              <<<<"drafts">>, <<"d", Md>>>>}

\* The patterns have been loaded: one or two lines of the file, then the
\* private-folder pattern (load_forbidden_patterns)
GlobInit ==
    /\ vault_path = VaultRoot
    /\ files = EmptyMap
    /\ dirs = {<<ROOT>>, VaultRoot}
    /\ links = EmptyMap
    /\ forbidden_file = "ok"
    /\ \E a \in GlobPatterns, b \in GlobPatterns \cup {None} :
           forbidden_patterns = load_forbidden_patterns(None,
               << [state |-> "ok", lines |-> IF b = None THEN <<a>> ELSE <<a, b>>] >>)
    /\ note_cache = EmptyMap
    /\ last = [op |-> "init", arg |-> <<>>, res |-> FALSE]

\* is_path_forbidden(path, vault_path) on the loaded patterns
IsPathForbidden ==
    \E path \in GlobPaths :
        /\ last' = [op |-> "is_path_forbidden", arg |-> path,
                    res |-> is_path_forbidden(path, vault_path, forbidden_patterns, "none")]
        /\ UNCHANGED <<vault_path, files, dirs, links, forbidden_file, forbidden_patterns,
                       note_cache>>

\* ------------------------------------ suggest_connections on a long note ----

\* A vault of two notes: x.md is longer than chunk_size, y.md is not
PairsInit ==
    /\ vault_path = VaultRoot
    /\ \E y \in {<<"w1", SP, "w2">>, <<"w5">>} :
           files = (<<ROOT, sVault, <<"x", Md>>>> :> <<"w1", SP, "w2", BREAK, "w3", SP, "w4">>)
                   @@ (<<ROOT, sVault, <<"y", Md>>>> :> y)
    /\ dirs = {<<ROOT>>, VaultRoot}
    /\ links = EmptyMap
    /\ forbidden_file = "absent"
    /\ forbidden_patterns = None
    /\ note_cache = EmptyMap
    /\ last = [op |-> "init", arg |-> <<>>, res |-> "ok", touched |-> {},
                write |-> <<>>, mutated |-> FALSE]

\* ------------------------------------------------- append_to_section ----

HASH == "#"
FENCE == "~~~"

\* str.lower(), symbol by symbol: "Recursos" is the capitalised word of the
\* alphabet and "recursos" its lower case
Lower(s) == [i \in 1..Len(s) |-> IF s[i] = "Recursos" THEN "recursos" ELSE s[i]]

RECURSIVE Run(_, _, _)
\* How many symbols of the set cs follow each other in t from position i on:
\* what a greedy #{1,6}, \s+ or \s* consumes there
Run(t, i, cs) == IF i <= Len(t) /\ t[i] \in cs THEN 1 + Run(t, i + 1, cs) ELSE 0

\* re.search(rf"^(#{{1,6}})\s+{re.escape(seccion_limpia)}\s*$", ...,
\* re.MULTILINE | re.IGNORECASE) tried at position i (creation_logic.py
\* 919-920): the position after the match, 0 when there is none.  ^ holds at
\* the start of the text and after a line end; the run of # is taken whole
\* since \s must follow it, and so is the white space before the title, which
\* starts with a symbol that is not white space; \s* gives back until $ holds,
\* at the end of the text or before a line end.
SectionEnd(t, title, i) ==
    LET n == Run(t, i, {HASH})
        j == i + n + Run(t, i + n, {SP, NL})
        k == j + Len(title)
        ends == {e \in k..(k + Run(t, k, {SP, NL})) : e = Len(t) + 1 \/ t[e] = NL}
    IN  IF /\ (i = 1 \/ t[i - 1] = NL)
           /\ n \in 1..6
           /\ j > i + n
           /\ k - 1 <= Len(t)
           /\ Lower(SubSeq(t, j, k - 1)) = Lower(title)
           /\ ends # {}
        THEN CHOOSE e \in ends : \A f \in ends : f <= e
        ELSE 0

\* re.search(rf"^#{{{1},{section_level}}}\s+\S", remaining_content,
\* re.MULTILINE) (creation_logic.py 928-930) tried at position p of the text,
\* where remaining_content starts at position from
NextHeadingAt(t, from, level, p) ==
    LET n == Run(t, p, {HASH})
        w == Run(t, p + n, {SP, NL})
    IN  /\ (p = from \/ t[p - 1] = NL)
        /\ n \in 1..level
        /\ w >= 1
        /\ p + n + w <= Len(t)

\* append_to_section (creation_logic.py 882-964) on the path the lookup
\* returned
append_to_section(nota_path, seccion, contenido, crear_si_no_existe, wr) ==
    IF vault_path = None THEN Unchanged("config_error", FALSE)
    ELSE IF Denied(nota_path) # "pass"
    THEN Unchanged(Denied(nota_path), nota_path # None /\ LoadsPatterns(nota_path))
    ELSE IF Resolve(nota_path, links) \in dirs THEN Unchanged("internal", TRUE)
    ELSE LET target == Resolve(nota_path, links)
             contenido_actual == files[target]
             \* seccion.lstrip("#").strip()
             seccion_limpia == RStripWs(LStripWs(LStrip(seccion, HASH)))
             matches == {i \in 1..Len(contenido_actual) :
                            SectionEnd(contenido_actual, seccion_limpia, i) # 0}
             section_at == FirstOf(matches)
             section_start == SectionEnd(contenido_actual, seccion_limpia, section_at)
             section_level == Run(contenido_actual, section_at, {HASH})
             nexts == {p \in section_start..Len(contenido_actual) :
                          NextHeadingAt(contenido_actual, section_start, section_level, p)}
             insert_pos == FirstOf(nexts)
             nuevo_contenido ==
                 IF matches # {}
                 THEN IF nexts # {}
                      THEN RStripWs(SubSeq(contenido_actual, 1, insert_pos - 1))
                               \o <<NL, NL>> \o contenido \o <<NL, NL>>
                               \o LStripWs(SubSeq(contenido_actual, insert_pos,
                                                  Len(contenido_actual)))
                      ELSE RStripWs(contenido_actual) \o <<NL, NL>> \o contenido \o <<NL>>
                 ELSE RStripWs(contenido_actual) \o <<NL, NL, HASH, HASH, SP>>
                          \o seccion_limpia \o <<NL, NL>> \o contenido \o <<NL>>
         IN  IF matches = {} /\ ~crear_si_no_existe THEN Unchanged("not_found", TRUE)
             ELSE Outcome(IF wr = "ok" THEN "ok" ELSE "internal",
                          WriteFile(files, target, nuevo_contenido, wr), dirs, {target},
                          << [path |-> target, before |-> contenido_actual,
                                intended |-> nuevo_contenido] >>, TRUE)

\* The lines the note is made of: two headings of depth 2, one of depth 3, a
\* line that starts with "# " (a heading of depth 1, or a comment in a fenced
\* code block), a line of text, an empty line and a code fence
SectionLines ==
    {<<HASH, HASH, SP, "Recursos">>, <<HASH, HASH, SP, "Otra">>,
     <<HASH, HASH, HASH, SP, "Sub">>, <<HASH, SP, "c">>, <<"x">>, <<>>, <<FENCE>>}

MaxNoteLen == 24

\* The section names and the content append_to_section is called with
Secciones == {<<"recursos">>, <<HASH, HASH, SP, "Otra">>, <<"Nueva">>}
Contenidos == {<<"-", SP, "new">>}

SectionInit ==
    /\ vault_path = VaultRoot
    /\ \E l1, l2, l3, l4 \in SectionLines :
          files = (<<ROOT, sVault, <<"note", Md>>>> :>
                       (JoinLines(<<l1, l2, l3, l4>>) \o <<NL>>))
    /\ dirs = {<<ROOT>>, VaultRoot}
    /\ links = EmptyMap
    /\ forbidden_file = "absent"
    /\ forbidden_patterns = None
    /\ note_cache = EmptyMap
    /\ last = [op |-> "init", arg |-> <<>>, res |-> "ok", touched |-> {},
                write |-> <<>>, mutated |-> FALSE]

AppendToSection ==
    \E seccion \in Secciones, contenido \in Contenidos, crear \in BOOLEAN,
       wr \in WriteOutcomes :
        \E f \in find_note_by_name(<<"note">>) :
            /\ Len(ContentAt(files, <<ROOT, sVault, <<"note", Md>>>>)) <= MaxNoteLen
            /\ Apply("append_section", [seccion |-> seccion, contenido |-> contenido],
                     append_to_section(f.path, seccion, contenido, crear, wr), f.cache)

\* ------------------------------------------------------ specifications ----

OtherIdle == UNCHANGED <<tasks, mtime, store, tracker, service, callers, snap>>

Init == FsInit /\ TasksInit /\ IdxInit

\* create_note and move_note, call by call
Next ==
    \/ CreateNote /\ OtherIdle
    \/ MoveNote /\ OtherIdle
Spec == Init /\ [][Next]_vars

\* edit_note, delete_note and read_note, call by call, with the note cache
NextNotes ==
    \/ EditNote /\ OtherIdle
    \/ DeleteNote /\ OtherIdle
    \/ ReadNote /\ OtherIdle
    \/ Expire /\ OtherIdle
SpecNotes == Init /\ [][NextNotes]_vars

\* check_path_access, call by call
NextPolicy == CheckAccess /\ OtherIdle
SpecPolicy == Init /\ [][NextPolicy]_vars

\* two tasks that call append_to_note
NextConc ==
    \/ \E t \in Tasks : AppendRead(t) /\ UNCHANGED idxVars
    \/ \E t \in Tasks : AppendWrite(t) /\ UNCHANGED idxVars
SpecConc == Init /\ [][NextConc]_vars

\* The semantic service exists only with a vault; its .forbidden_paths is there
IndexInit == Init /\ vault_path = VaultRoot /\ forbidden_file = "ok"

\* index_vault one call at a time, while files of the vault change
NextIndex ==
    \/ IndexVault
    \/ WriteVaultFile
    \/ DeleteVaultFile
SpecIndex == IndexInit /\ [][NextIndex]_vars

\* index_vault requested by two callers at once
NextIndexConc ==
    \/ \E c \in Callers : IndexCall(c)
    \/ \E c \in Callers : IndexBegin(c)
    \/ \E c \in Callers : IndexEnd(c)
    \/ WriteVaultFile
SpecIndexConc == IndexInit /\ [][NextIndexConc]_vars

\* index_vault one call at a time, with failures, while notes are written
NextIndexFail ==
    \/ IndexVaultFailing
    \/ WriteVaultFile
IndexFailInit == IndexInit /\ links = EmptyMap
SpecIndexFail == IndexFailInit /\ [][NextIndexFail]_vars

\* lookups, deletions and moves, with the note cache
CacheInit == Init /\ vault_path = VaultRoot /\ forbidden_file = "absent"
                  /\ links = EmptyMap
NextCache ==
    \/ FindNote /\ OtherIdle
    \/ DeleteNote /\ OtherIdle
    \/ MoveNote /\ OtherIdle
    \/ Expire /\ OtherIdle
SpecCache == CacheInit /\ [][NextCache]_vars

\* edit_note and the metadata-only operations on one note
NextEdit ==
    \/ EditText /\ OtherIdle
    \/ UpdateFrontmatter /\ OtherIdle
    \/ ManageTags /\ OtherIdle
EditStart == EditInit /\ TasksInit /\ IdxInit
SpecEdit == EditStart /\ [][NextEdit]_vars

\* the semantic tools on one vault
NextConn ==
    \/ IndexVault
    \/ Query
    \/ SuggestFolder
    \/ SuggestConnections
ConnStart == ConnInit /\ TasksInit /\ IdxInit
SpecConn == ConnStart /\ [][NextConn]_vars

\* a caller that creates notes and reads them back
NextReadBack ==
    \/ ReadBack /\ OtherIdle
    \/ CreateNote /\ OtherIdle
    \/ Expire /\ OtherIdle
SpecReadBack == CacheInit /\ [][NextReadBack]_vars

\* index_vault one call at a time, while notes are touched, added and removed
StatsStart == StatsInit /\ TasksInit /\ IdxInit
NextStats ==
    \/ IndexVault
    \/ TouchVaultFile
    \/ AddVaultFile
    \/ RemoveVaultFile
SpecStats == StatsStart /\ [][NextStats]_vars

\* is_path_forbidden, call by call, on patterns that hold "**"
GlobStart == GlobInit /\ TasksInit /\ IdxInit
NextGlob == IsPathForbidden /\ OtherIdle
SpecGlob == GlobStart /\ [][NextGlob]_vars

\* the semantic tools on a vault with a note of two chunks
PairsStart == PairsInit /\ TasksInit /\ IdxInit
SpecPairs == PairsStart /\ [][NextConn]_vars

\* queries between runs of index_vault that may fail, while notes are written
NextRetriever ==
    \/ IndexVaultFailing
    \/ WriteVaultFile
    \/ Query
SpecRetriever == IndexFailInit /\ [][NextRetriever]_vars



\* append_to_section on one note
NextSection == AppendToSection /\ OtherIdle
SectionStart == SectionInit /\ TasksInit /\ IdxInit
SpecSection == SectionStart /\ [][NextSection]_vars

\* two tasks that call create_note
NextCreate ==
    \/ \E t \in Tasks : CreateCheck(t) /\ UNCHANGED idxVars
    \/ \E t \in Tasks : CreateWrite(t) /\ UNCHANGED idxVars
SpecCreate == Init /\ [][NextCreate]_vars

\* ------------------------------------------------------------- claims ----

\* C1: every file or directory a vault operation reads, creates, writes,
\* removes or renames has a canonical path under the canonical vault root.
C1_TouchedInsideVault ==
    vault_path # None =>
        \A p \in last.touched : IsRelativeTo(p, Resolve(vault_path, links))

\* C2: a call that the path policy denies leaves the files and the
\* directories exactly as they were before the call.
C2_DeniedLeavesFilesystem == last.res = "forbidden" => ~last.mutated

PrivateSecret == <<ROOT, sVault, sPrivate, <<"secret", Md>>>>

\* C3: with .forbidden_paths holding **/Private/*, create_note with the title
\* "secret" and the folder "Private" returns a forbidden failure, and the note
\* file is not created.
C3_ForbiddenCreateDenied ==
    (last.op = "create" /\ last.arg = sPrivate /\ vault_path # None
                        /\ forbidden_file = "ok")
        => (last.res = "forbidden" /\ PrivateSecret \notin DOMAIN files)

C3_Witness ==
    /\ last.op = "create" /\ last.arg = sPrivate
    /\ vault_path # None /\ forbidden_file = "ok"
    /\ last.res = "forbidden"
    /\ Append(VaultRoot, sPrivate) \in dirs

\* C4: every source whose chunks are in the vector store passes
\* check_path_access: it is inside the vault and matches no forbidden pattern.
C4_IndexedPassesAccess == \A p \in DOMAIN store.chunks : Allowed(p)

\* C5: a move_note that succeeds has a source and a destination that both
\* pass the path policy (vault confinement and forbidden patterns).
C5_MoveHonoursPolicy ==
    (last.op = "move" /\ vault_path # None /\ last.res = "ok")
        => (Allowed(ToPath(last.arg[1])) /\ Allowed(ToPath(last.arg[2])))

\* C6: check_path_access denies the path whenever the vault is unconfigured,
\* or loading the patterns, resolving the path or matching a pattern fails.
C6_FailClosed ==
    (last.op = "check" /\ (vault_path = None \/ last.err # "none" \/ last.load_failed))
        => last.res = "forbidden"

\* C7: after a write, failed or not, the target file holds the complete
\* intended content or its previous content unchanged.
C7_WriteAllOrNothing ==
    last.write # <<>> =>
        ContentAt(files, last.write[1].path)
            \in {last.write[1].intended, last.write[1].before}

Contains(content, part) == \E i \in 1..Len(content) : content[i] = part[1]

\* C8: when two append_to_note calls on the same note have both returned
\* success, the file holds what each of them appended.
C8_BothAppendsKept ==
    \A t \in Tasks : \A u \in Tasks \ {t} :
        (/\ tasks[t].pc = "idle" /\ tasks[t].res = "ok"
         /\ tasks[u].pc = "idle" /\ tasks[u].res = "ok"
         /\ tasks[t].path = tasks[u].path)
            => (/\ Contains(ContentAt(files, tasks[t].path), TaskBody(t))
                /\ Contains(ContentAt(files, tasks[t].path), TaskBody(u)))

\* C9: at most one run of index_vault executes at a time, and a caller whose
\* call arrived while another run was in progress never starts a run of its
\* own.
C9_OneRunCoalesced ==
    /\ Cardinality({c \in Callers : callers[c].pc = "running"}) <= 1
    /\ \A c \in Callers : callers[c].pc = "running" => ~callers[c].overlapped

\* C11: when a full build fails, the vector store that existed before the
\* call is left as it was, and index_vault returns its stats with
\* success = false (it does not raise).
C11_FailedBuildKeepsStore ==
    (last.op = "index" /\ last.full /\ last.store.exists /\ ~service.success)
        => (store = last.store /\ ~service.raised)

\* C12: when an incremental update has deleted the chunks of a modified file
\* and then fails to load or add that file, the call raises or returns
\* success = false: it does not report a successful update.
C12_IncrementalFailureSurfaced ==
    (/\ last.op = "index" /\ ~last.full /\ last.err \in {"load", "embed", "add"}
     /\ \E p \in (DOMAIN last.store.chunks) \cap WalkMd : p \notin DOMAIN store.chunks)
        => (service.raised \/ ~service.success)

\* The value of a key in the front matter of a content, or None
FrontmatterValue(contenido, key) ==
    MetadataGet(_extract_frontmatter_from_content(contenido).metadata, key)

\* The text that follows the front matter (a first line ---, closed by the
\* next line ---), or the whole content when it has none
BodyText(contenido) ==
    LET ls == SplitLines(contenido)
        closing == {i \in 2..Len(ls) : ls[i] = <<DASHES>>}
    IN  IF ls[1] = <<DASHES>> /\ closing # {}
        THEN JoinLines(SubSeq(ls, FirstOf(closing) + 1, Len(ls)))
        ELSE contenido

\* C16: after a successful edit_note of a note whose front matter has a
\* created value, the front matter of the note has that same created value.
C16_CreatedPreserved ==
    (/\ last.op = "edit" /\ last.res = "ok"
     /\ FrontmatterValue(last.write[1].before, "created:") # None)
        => FrontmatterValue(files[last.write[1].path], "created:")
               = FrontmatterValue(last.write[1].before, "created:")

\* C17: after every successful edit_note, the front matter of the note has
\* an updated value that is the current date.
C17_UpdatedIsToday ==
    (last.op = "edit" /\ last.res = "ok")
        => FrontmatterValue(files[last.write[1].path], "updated:") = <<"scalar", Today>>

\* C18: after a successful front-matter update or tag add/remove, the text
\* that follows the front matter of the note (the whole file if it had none)
\* is what it was before the operation.
C18_BodyPreserved ==
    (last.op \in {"frontmatter", "tags"} /\ last.res = "ok" /\ last.write # <<>>)
        => BodyText(files[last.write[1].path]) = BodyText(last.write[1].before)

\* C13: no pair that suggest_connections returns has the same source twice,
\* and in none does the document of one note link to the other note.
C13_NoLinkedPair ==
    last.op = "suggest_connections" =>
        \A k \in 1..Len(last.res) :
            LET s == last.res[k]
                a == Append(s.folder_a, s.note_a)
                b == Append(s.folder_b, s.note_b)
            IN  s # TimeoutSentinel =>
                    /\ a # b
                    /\ ~InSeq(Stem(s.note_b), extract_obsidian_links(store.chunks[a][1]))
                    /\ ~InSeq(Stem(s.note_a), extract_obsidian_links(store.chunks[b][1]))

\* C14: every path that find_note_by_name returns refers to a file that
\* exists when it is returned, whatever was deleted or moved since the name
\* was cached.
C14_NoStalePath == (last.op = "find" /\ last.res # None) => last.existed

C14_Witness == last.op = "find" /\ last.stale

\* C15: after a successful create_note, a read of the note of that title by
\* the same caller succeeds and returns what create_note wrote, whatever
\* lookups of that name were made before.
C15_ReadsOwnWrite ==
    (/\ last.op = "readback" /\ last.prev.op = "create" /\ last.arg = <<"secret">>
     /\ Cardinality({p \in RGlobMd(vault_path) : Stem(PathName(p)) = <<"secret">>}) = 1)
        => (last.res = "ok" /\ last.content = last.prev.write[1].intended)

\* C19: when the time limit is exceeded during suggest_connections, the call
\* returns exactly one suggestion, the sentinel, whose similarity is 0 and
\* whose reason is "Timeout. Reduce el umbral o filtra carpetas.".
C19_TimeoutSentinel ==
    (last.op = "suggest_connections" /\ last.timed_out)
        => /\ Len(last.res) = 1
           /\ last.res[1].similarity = 0
           /\ last.res[1].reason = "Timeout. Reduce el umbral o filtra carpetas."

C19_Witness == last.op = "suggest_connections" /\ last.timed_out

\* C19 as stated: the reason of the sentinel is "timeout".
C19_ReasonIsTimeout ==
    (last.op = "suggest_connections" /\ last.timed_out)
        => /\ Len(last.res) = 1
           /\ last.res[1].similarity = 0
           /\ last.res[1].reason = "timeout"

\* C20: after a call of query, suggest_folder or suggest_connections, the
\* vector store and the tracker are what they were before the call.
C20_ReadOnlyTools ==
    last.op \in {"query", "suggest_folder", "suggest_connections"}
        => (store = last.store /\ tracker = last.tracker)

\* C10: after index_vault(force=true), as long as no file changes, every
\* later run of index_vault leaves the chunks of the vector store and the
\* state of the tracker as that run left them.
C10_RunsIdempotent ==
    snap # <<>> => (store = snap[1].store /\ tracker = snap[1].tracker)

\* C21: no operation swallows a config_error: when the vault is unconfigured,
\* edit_note, delete_note and read_note fail with a config_error, never with
\* another kind of failure.
C21_ConfigErrorSurfaced ==
    (vault_path = None /\ last.op \in {"edit", "delete", "read"})
        => last.res = "config_error"

\* Does the text s hold the text p, symbol by symbol?
Occurs(p, s) == \E i \in 1..(Len(s) - Len(p) + 1) : SubSeq(s, i, i + Len(p) - 1) = p

\* C22: the text of a forbidden failure never holds the offending path: when
\* move_note denies a move, neither the origin nor the destination it was
\* given occurs in the text of the failure.
C22_NoPathInText ==
    (last.op = "move" /\ last.res = "forbidden")
        => LET text == move_note_error(last.arg[1], last.arg[2])
           IN  ~Occurs(last.arg[1], text) /\ ~Occurs(last.arg[2], text)

RECURSIVE GlobSegments(_, _)
\* Do the segments segs match the pattern segments pats, where a segment "**"
\* stands for any number of segments and any other matches one segment?
GlobSegments(segs, pats) ==
    IF pats = <<>> THEN segs = <<>>
    ELSE IF Head(pats) = <<"*", "*">>
    THEN GlobSegments(segs, Tail(pats)) \/ (segs # <<>> /\ GlobSegments(Tail(segs), pats))
    ELSE segs # <<>> /\ FnMatch(Head(segs), Head(pats)) /\ GlobSegments(Tail(segs), Tail(pats))

\* C24: is_path_forbidden reports a vault-relative path as forbidden if and
\* only if it matches one of the loaded patterns, segment by segment, with
\* "**" standing for any number of segments wherever it occurs.
C24_ForbiddenIffGlobMatch ==
    last.op = "is_path_forbidden" =>
        (last.res <=> \E i \in 1..Len(forbidden_patterns) :
                          GlobSegments(last.arg, ToPath(forbidden_patterns[i])))

\* C25: after every completed run of index_vault, full or incremental, the
\* tracker has an entry for a path if and only if the vector store holds
\* chunks of that file.
C25_EntryIffIndexed ==
    (last.op = "index" /\ service.success) =>
        \A p \in (DOMAIN tracker.entries) \cup (DOMAIN store.chunks) :
            p \in DOMAIN tracker.entries
                <=> (p \in DOMAIN store.chunks /\ store.chunks[p] # <<>>)

\* C26: no result of suggest_connections holds the same pair of notes more
\* than once, in either order.
C26_PairOnce ==
    last.op = "suggest_connections" =>
        \A k1, k2 \in 1..Len(last.res) :
            LET s1 == last.res[k1]
                s2 == last.res[k2]
                Notes(s) == {Append(s.folder_a, s.note_a), Append(s.folder_b, s.note_b)}
            IN  (k1 # k2 /\ s1 # TimeoutSentinel /\ s2 # TimeoutSentinel)
                    => Notes(s1) # Notes(s2)

\* C27: a query never uses BM25 state built from an older store: the
\* retriever a query has used was built from the documents of the store as
\* the last index run left it.
C27_RetrieverOfCurrentStore ==
    (last.op = "query" /\ ~last.raised /\ service.retriever.built)
        => service.retriever.docs = store.chunks

\* The headings of a note whose lines are ls: a line outside the fenced code
\* blocks that starts with one to six # followed by a space or by nothing
IsHeading(ls, i) ==
    LET n == Run(ls[i], 1, {HASH})
    IN  /\ Cardinality({j \in 1..(i - 1) : ls[j] # <<>> /\ ls[j][1] = FENCE}) % 2 = 0
        /\ n \in 1..6
        /\ (Len(ls[i]) = n \/ ls[i][n + 1] = SP)

HeadingText(l) == RStripWs(LStripWs(LStrip(l, HASH)))

\* The lines of a text that are not blank, without their trailing white space
Kept(text) ==
    SelectSeq([i \in 1..Len(SplitLines(text)) |-> RStripWs(SplitLines(text)[i])],
              LAMBDA l : l # <<>>)

\* The text that holds content at the end of the section of the first heading
\* named section, line by line
InSection(text, section, content) ==
    LET ls == SplitLines(text)
        named == {i \in 1..Len(ls) : /\ IsHeading(ls, i)
                                     /\ Lower(HeadingText(ls[i])) = Lower(HeadingText(section))}
        h == FirstOf(named)
        after == {i \in (h + 1)..Len(ls) :
                     IsHeading(ls, i) /\ Run(ls[i], 1, {HASH}) <= Run(ls[h], 1, {HASH})}
        n == IF after = {} THEN Len(ls) + 1 ELSE FirstOf(after)
    IN  Kept(JoinLines(SubSeq(ls, 1, n - 1))) \o Kept(content)
            \o Kept(JoinLines(SubSeq(ls, n, Len(ls))))

HasSection(text, section) ==
    \E i \in 1..Len(SplitLines(text)) :
        /\ IsHeading(SplitLines(text), i)
        /\ Lower(HeadingText(SplitLines(text)[i])) = Lower(HeadingText(section))

\* C28: when the note has a heading named section_title (in any case, at any
\* depth), a successful append_to_section leaves the note with the content at
\* the end of that heading's section (before the next heading that is not
\* deeper, or at the end of the file) and with every other line in its place.
\* Blank lines and trailing white space are not compared.
C28_InsertedInSection ==
    (/\ last.op = "append_section"
     /\ last.res = "ok"
     /\ HasSection(last.write[1].before, last.arg.seccion))
        => Kept(files[last.write[1].path])
               = InSection(last.write[1].before, last.arg.seccion, last.arg.contenido)

\* The vector store holds the chunks of the documents the full loader returns
StoreAsRebuilt ==
    [p \in {q \in DOMAIN store.chunks : store.chunks[q] # <<>>} |-> store.chunks[p]]
        = FromDocuments(load_all_obsidian_documents("none")).chunks

\* C29: after a run of index_vault(force=false) that ends well, the vector
\* store holds the chunks that index_vault(force=true) would produce from the
\* vault as it is: the chunks of the documents the full loader returns.
C29_IncrementalEqualsFull ==
    [][(/\ files' = files /\ mtime' = mtime
        /\ last'.op = "index" /\ ~last'.force /\ service'.success)
           => StoreAsRebuilt']_vars

\* C30: of two create_note calls that have returned and whose path is the
\* same, at most one has succeeded, and the file holds the content of the one
\* that has.
C30_OneCreateWins ==
    \A t \in Tasks : \A u \in Tasks \ {t} :
        (/\ tasks[t].pc = "idle" /\ tasks[t].res = "ok"
         /\ tasks[u].pc = "idle" /\ tasks[u].n > 0
         /\ tasks[u].path = tasks[t].path)
            => (/\ tasks[u].res # "ok"
                /\ ContentAt(files, tasks[t].path) = tasks[t].contenido_final)

====
